----------------------------- MODULE MCMapScene -----------------------------
EXTENDS MapScene

Items(c) == [kind : DOMAIN Layer[c].icon, located : BOOLEAN]
MCPayloads(c) ==
  {{}, Items(c), {CHOOSE i \in Items(c) : ~i.located}}

MCScenes == {{c} : c \in MapPageLayers \cup TripMapLayers}
=============================================================================
