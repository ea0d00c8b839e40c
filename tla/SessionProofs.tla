--------------------------- MODULE SessionProofs ---------------------------
(* What holds of a tab for every set of users and roles and any number of     *)
(* tokens: its types, a menu that opens, a visitor of a shared trip who is    *)
(* left alone; and, when requests are answered, a tab whose token is refused  *)
(* that leaves, and guards that do not send it round in a circle.             *)
EXTENDS Session, TLAPS

(***************************************************************************)
(* The menu.                                                               *)
(***************************************************************************)

\* Each entry of a user's menu is a page its own guard lets that user stay on.
LEMMA MenuLands ==
  ASSUME NEW u, NEW p \in Menu(u)
  PROVE  Landing(p, u) = p
<1>1. CASE p \in {"home", "map", "howItWorks"}
  BY <1>1 DEF Landing
<1>2. CASE Role[u] = "driver" /\ p = "myTrips"
  BY <1>2 DEF Landing
<1>3. CASE Role[u] # "driver" /\ p \in {"trips", "shipments"}
  BY <1>3 DEF Landing
<1>4. CASE Dispatches(u) /\ p = "fleet"
  BY <1>4 DEF Landing
<1>5. CASE Superuser[u] /\ p = "admin"
  BY <1>5 DEF Landing
<1>6. QED
  BY <1>1, <1>2, <1>3, <1>4, <1>5 DEF Menu

\* The sidebar never offers the signed-in user a page that turns him away,
\* whatever his role and rights.
THEOREM MenuAlwaysOpens == Spec => []MenuOpens
<1>1. MenuOpens
  BY MenuLands DEF MenuOpens
<1>2. QED
  BY <1>1, PTL

(***************************************************************************)
(* Types.                                                                  *)
(***************************************************************************)

\* A guard sends the tab to a page of the application.
LEMMA LandingIsPage ==
  ASSUME NEW p \in Guarded, NEW u
  PROVE  Landing(p, u) \in Pages
BY DEF Landing, Guarded, Layout, Pages

\* Who is signed in is asked with the token.
LEMMA WhoAmICarriesToken == Secured("readUserMe")
<1> DEFINE o == [name |-> "readUserMe", secured |-> TRUE]
<1>1. o \in UsersService
  BY DEF UsersService, Carrying
<1>2. o \in Operations
  BY <1>1 DEF Operations
<1>3. o.secured /\ o.name = "readUserMe"
  OBVIOUS
<1> HIDE DEF o
<1>4. QED
  BY <1>2, <1>3 DEF Secured, SecuredOperations

LEMMA FreshType == Fresh \in Tabs
BY DEF Fresh, Tabs

LEMMA SubscribeType ==
  ASSUME NEW s \in Tabs, NEW token \in Carried
  PROVE  Subscribe(s, token) \in Tabs
BY DEF Subscribe, Tabs

\* Showing a page keeps the types of the tab and of what is in storage.
LEMMA ShowType ==
  ASSUME NEW s \in Tabs, NEW p \in Pages \cup {"failed"}, NEW token \in Carried
  PROVE  Show(s, p, token).tab \in Tabs /\ Show(s, p, token).stored \in Carried
<1> DEFINE mounts == p \in UsesAuth \/ (p \in Observing \cup {"failed"} /\ ~InLayout(s))
           shown == [s EXCEPT !.page = p, !.going = None]
           subscribed == IF mounts THEN Subscribe(shown, token) ELSE shown
<1>1. shown \in Tabs
  BY DEF Tabs
<1>2. subscribed \in Tabs
  BY <1>1, SubscribeType
<1>3. [subscribed EXCEPT !.page = "login"] \in Tabs
  BY <1>2 DEF Tabs, Pages, Entry
<1>4. 0 \in Carried
  BY DEF Carried
<1>5. Show(s, p, token) = IF mounts /\ subscribed.status = "error"
                          THEN [tab |-> [subscribed EXCEPT !.page = "login"], stored |-> 0]
                          ELSE [tab |-> subscribed, stored |-> token]
  BY DEF Show
<1> HIDE DEF subscribed, mounts
<1>6. QED
  BY <1>2, <1>3, <1>4, <1>5

\* The pages one signs in on have no guard.
LEMMA EntryIsUnguarded == \A p \in Entry : p \notin Guarded
BY DEF Entry, Guarded, Layout

LEMMA GoToType ==
  ASSUME NEW s \in Tabs, NEW p \in Pages, NEW token \in Carried
  PROVE  GoTo(s, p, token).tab \in Tabs /\ GoTo(s, p, token).stored \in Carried
<1>1. \A q \in Pages : /\ Show(s, q, token).tab \in Tabs
                       /\ Show(s, q, token).stored \in Carried
  BY ShowType
<1>2. "login" \in Pages /\ "home" \in Pages
  BY DEF Pages, Entry, Layout
<1>3. p \in Guarded => [s EXCEPT !.going = [to |-> p, token |-> token]] \in Tabs
  BY DEF Tabs
<1>4. CASE p \in Layout /\ token = 0
  BY <1>1, <1>2, <1>4 DEF GoTo
<1>5. CASE p \in Entry /\ token # 0
  <2>1. GoTo(s, p, token) = Show(s, "home", token)
    BY <1>5, EntryIsUnguarded DEF GoTo
  <2>2. QED
    BY <2>1, <1>1, <1>2
<1>6. CASE p \in Guarded /\ token # 0
  <2>1. p \notin Entry
    BY <1>6, EntryIsUnguarded
  <2>2. GoTo(s, p, token) =
          [tab |-> [s EXCEPT !.going = [to |-> p, token |-> token]], stored |-> token]
    BY <2>1, <1>6 DEF GoTo
  <2>3. QED
    BY <2>2, <1>3, <1>6
<1>7. CASE ~(p \in Layout /\ token = 0) /\ ~(p \in Entry /\ token # 0)
           /\ ~(p \in Guarded /\ token # 0)
  BY <1>1, <1>7 DEF GoTo
<1>8. QED
  BY <1>4, <1>5, <1>6, <1>7

\* Nor does being sent to sign in again.
LEMMA SignInAgainType == SignInAgain.tab \in Tabs /\ SignInAgain.stored \in Carried
BY GoToType, FreshType DEF SignInAgain, Carried, Pages, Entry

\* The tab, and the token it leaves in storage, stay what they are with every
\* answer, and only tokens the backend has issued are accepted by it.
THEOREM TypeCorrect == Spec => []TypeOK
<1>1. Init => TypeOK
  <2> SUFFICES ASSUME Init PROVE TypeOK
    OBVIOUS
  <2>1. "login" \in Pages /\ 0 \in Carried
    BY DEF Pages, Entry, Carried
  <2>2. tab \in Tabs
    BY <2>1, GoToType, FreshType DEF Init
  <2>3. owner \in Seq(Users) /\ Len(owner) <= MaxTokens /\ valid \subseteq DOMAIN owner
    BY SessionAssumption DEF Init
  <2>4. QED
    BY <2>1, <2>2, <2>3 DEF Init, TypeOK
<1>2. TypeOK /\ [Next]_vars => TypeOK'
  <2> SUFFICES ASSUME TypeOK, [Next]_vars PROVE TypeOK'
    OBVIOUS
  <2>1. /\ stored \in Carried /\ tab \in Tabs /\ 0 \in Carried
        /\ owner \in Seq(Users) /\ Len(owner) \in Nat /\ Len(owner) <= MaxTokens
        /\ valid \subseteq DOMAIN owner
    BY DEF TypeOK, Carried
  <2>2. \A k \in valid : owner[k] \in Users
    BY <2>1
  <2>3. ASSUME UNCHANGED <<owner, valid>>, tab' \in Tabs, stored' \in Carried PROVE TypeOK'
    BY <2>1, <2>3 DEF TypeOK
  <2>4. ASSUME NEW p \in Openable, Load(p) \/ Open(p) PROVE TypeOK'
    BY <2>1, <2>3, <2>4, GoToType, FreshType, SessionAssumption DEF Load, Open, Becomes, Pages
  <2>5. CASE Refocus
    <3>1. tab' \in Tabs
      BY <2>1, <2>5 DEF Refocus, Tabs
    <3>2. QED
      BY <3>1, <2>1, <2>3, <2>5 DEF Refocus
  <2>6. ASSUME NEW a, UserAnswers(a) PROVE TypeOK'
    <3> DEFINE told == [tab EXCEPT !.fetching = None]
               failed == [told EXCEPT !.status = "error"]
    <3>1. told \in Tabs /\ failed \in Tabs
      BY <2>1 DEF Tabs
    <3>2. [failed EXCEPT !.page = "login", !.going = None] \in Tabs
      BY <3>1 DEF Tabs, Pages, Entry
    <3>3. CASE a = "ok"
      <4>1. tab.fetching \in valid
        BY <2>6, <3>3, WhoAmICarriesToken DEF UserAnswers, Answers
      <4>2. [told EXCEPT !.user = owner[tab.fetching], !.status = "success"] \in Tabs
        BY <4>1, <3>1, <2>2 DEF Tabs
      <4>3. tab' = [told EXCEPT !.user = owner[tab.fetching], !.status = "success"]
            /\ stored' = stored
        BY <2>6, <3>3 DEF UserAnswers, Becomes
      <4>4. QED
        BY <4>2, <4>3, <2>1, <2>3, <2>6 DEF UserAnswers
    <3>4. CASE a = "unauthorized"
      BY <2>1, <2>3, <2>6, <3>4, SignInAgainType DEF UserAnswers, Becomes
    <3>5. CASE a \in {"refused", "failed"}
      BY <2>1, <2>3, <2>6, <3>1, <3>2, <3>5 DEF UserAnswers, Becomes
    <3>6. QED
      BY <2>6, <3>3, <3>4, <3>5 DEF UserAnswers, Answers
  <2>7. ASSUME NEW a, GuardAnswers(a) PROVE TypeOK'
    <3> DEFINE p == tab.going.to
               land == IF a = "ok" THEN Landing(p, owner[tab.going.token]) ELSE "failed"
               arrived == [tab EXCEPT !.going = None]
    <3>1. arrived \in Tabs
      BY <2>1 DEF Tabs
    <3>2. p \in Guarded
      BY <2>1, <2>7 DEF Tabs, GuardAnswers
    <3>3. p \in Pages /\ (land \in Pages \/ land = "failed")
      BY <3>2, LandingIsPage DEF Guarded, Pages
    <3>4. /\ tab' = (IF land \in {p, "failed"} THEN Show(arrived, land, stored)
                      ELSE GoTo(arrived, land, stored)).tab
          /\ stored' = (IF land \in {p, "failed"} THEN Show(arrived, land, stored)
                         ELSE GoTo(arrived, land, stored)).stored
          /\ UNCHANGED <<owner, valid>>
      BY <2>7 DEF GuardAnswers, Becomes
    <3> HIDE DEF p, land, arrived
    <3>5. CASE land \in {p, "failed"}
      BY <3>1, <3>3, <3>4, <3>5, <2>1, <2>3, ShowType
    <3>6. CASE land \notin {p, "failed"}
      BY <3>1, <3>3, <3>4, <3>6, <2>1, <2>3, GoToType
    <3>7. QED
      BY <3>5, <3>6
  <2>8. ASSUME NEW r \in Requests, Ask(r) PROVE TypeOK'
    <3>1. tab' \in Tabs
      BY <2>1, <2>8 DEF Ask, Tabs
    <3>2. QED
      BY <3>1, <2>1, <2>3, <2>8 DEF Ask
  <2>9. Answered \in Tabs
    BY <2>1 DEF Answered, Tabs
  <2>10. \A r \in Requests : r.to \in Pages
    BY DEF Requests, SignIn, SignUp, RecoverPassword, ResetPassword, SharedTrip, ChangePassword,
           ChangeProfile, DeleteAccount, Content, Request, Pages, Entry, Layout
  <2>11. ASSUME NEW u \in Users, SignedIn(u) PROVE TypeOK'
    <3>1. /\ owner' \in Seq(Users) /\ Len(owner') = Len(owner) + 1 /\ Len(owner) < MaxTokens
          /\ DOMAIN owner' = 1 .. Len(owner) + 1 /\ DOMAIN owner = 1 .. Len(owner)
      BY <2>1, <2>11 DEF SignedIn
    <3>2. Len(owner') \in Carried /\ valid' \subseteq DOMAIN owner' /\ Len(owner') <= MaxTokens
      BY <2>1, <2>11, <3>1, SessionAssumption DEF SignedIn, Carried, Tokens
    <3>3. tab' \in Tabs /\ stored' \in Carried
      BY <2>9, <2>11, <3>2, GoToType DEF SignedIn, Becomes, SignIn, Request, Pages, Layout
    <3>4. QED
      BY <3>1, <3>2, <3>3 DEF TypeOK
  <2>12. CASE AccountDeleted
    <3> DEFINE s == [Answered EXCEPT !.fetching = IF InLayout(tab) THEN 0 ELSE @]
    <3>1. s \in Tabs
      BY <2>1, <2>9 DEF Tabs
    <3>2. tab' = GoTo(s, "login", 0).tab /\ stored' = GoTo(s, "login", 0).stored
      BY <2>12 DEF AccountDeleted, Becomes, DeleteAccount, Request
    <3> HIDE DEF s
    <3>3. tab' \in Tabs /\ stored' \in Carried
      BY <3>1, <3>2, <2>1, GoToType DEF Pages, Entry
    <3>4. QED
      BY <3>3, <2>1, <2>12 DEF AccountDeleted, TypeOK
  <2>13. ASSUME NEW a, CallAnswers(a) PROVE TypeOK'
    <3>1. tab.call.of \in Requests
      BY <2>1, <2>13 DEF CallAnswers, Tabs
    <3>2. tab.call.of.to \in Pages
      BY <3>1, <2>10
    <3>3. \/ tab' = SignInAgain.tab /\ stored' = SignInAgain.stored
          \/ tab' = GoTo(Answered, tab.call.of.to, stored).tab
             /\ stored' = GoTo(Answered, tab.call.of.to, stored).stored
          \/ tab' = Answered /\ stored' = stored
      BY <2>13 DEF CallAnswers, Becomes
    <3>4. tab' \in Tabs /\ stored' \in Carried
      BY <3>2, <3>3, <2>1, <2>9, GoToType, SignInAgainType
    <3>5. QED
      BY <3>4, <2>3, <2>13 DEF CallAnswers
  <2>14. CASE Logout
    BY <2>1, <2>3, <2>14, GoToType DEF Logout, Becomes, Pages, Entry
  <2>15. ASSUME NEW u \in Users, OtherTabSignsIn(u) PROVE TypeOK'
    <3>1. /\ owner' \in Seq(Users) /\ Len(owner') = Len(owner) + 1 /\ Len(owner) < MaxTokens
          /\ DOMAIN owner' = 1 .. Len(owner) + 1 /\ DOMAIN owner = 1 .. Len(owner)
      BY <2>1, <2>15 DEF OtherTabSignsIn
    <3>2. stored' \in Carried /\ valid' \subseteq DOMAIN owner' /\ Len(owner') <= MaxTokens
      BY <2>1, <2>15, <3>1, SessionAssumption DEF OtherTabSignsIn, Carried, Tokens
    <3>3. QED
      BY <3>1, <3>2, <2>1, <2>15 DEF OtherTabSignsIn, TypeOK
  <2>16. CASE OtherTabSignsOut
    BY <2>1, <2>3, <2>16 DEF OtherTabSignsOut
  <2>17. ASSUME NEW k \in Tokens, Expire(k) PROVE TypeOK'
    BY <2>1, <2>17 DEF Expire, TypeOK
  <2>18. CASE UNCHANGED vars
    BY <2>1, <2>3, <2>18 DEF vars
  <2>19. QED
    BY <2>4, <2>5, <2>6, <2>7, <2>8, <2>11, <2>12, <2>13, <2>14, <2>15, <2>16, <2>17, <2>18
    DEF Next, UserMoves, Respond
<1>3. QED
  BY <1>1, <1>2, PTL DEF Spec

(***************************************************************************)
(* The visitor of a shared trip.                                           *)
(***************************************************************************)

\* On the page of a shared trip nothing is asked but that trip.
VisitorInv ==
  tab.page = "shared" =>
    /\ tab.fetching = None
    /\ tab.going = None
    /\ tab.call # None => tab.call.of.page = "shared"

\* That request is the one whose page is the shared trip's, and carries no token.
LEMMA SharedTripIsPublic ==
  /\ \A r \in Requests : r.page = "shared" => r = SharedTrip
  /\ ~Secured("plansReadSharedTripPlan")
<1>1. \A r \in Requests : r.page = "shared" => r = SharedTrip
  BY DEF Requests, SignIn, SignUp, RecoverPassword, ResetPassword, SharedTrip, ChangePassword,
         ChangeProfile, DeleteAccount, Content, Request
<1> DEFINE Shared(o) == o.secured /\ o.name = "plansReadSharedTripPlan"
<1>2. \A o \in LoginService : ~Shared(o)
  BY DEF LoginService, Carrying, Public
<1>3. \A o \in UsersService : ~Shared(o)
  BY DEF UsersService, Carrying, Public
<1>4. \A o \in UtilsService : ~Shared(o)
  BY DEF UtilsService, Carrying, Public
<1>5. \A o \in ItemsService : ~Shared(o)
  BY DEF ItemsService, Carrying, Public
<1>6. \A o \in VehiclesService : ~Shared(o)
  BY DEF VehiclesService, Carrying, Public
<1>7. \A o \in FuelService : ~Shared(o)
  BY DEF FuelService, Carrying, Public
<1>8. \A o \in FuelOptimizationService : ~Shared(o)
  BY DEF FuelOptimizationService, Carrying, Public
<1>9. \A o \in GeocodingService : ~Shared(o)
  BY DEF GeocodingService, Carrying, Public
<1>10. \A o \in RoutingService : ~Shared(o)
  BY DEF RoutingService, Carrying, Public
<1>11. \A o \in MapService : ~Shared(o)
  BY DEF MapService, Carrying, Public
<1>12. \A o \in TripPlansService : ~Shared(o)
  BY DEF TripPlansService, Carrying, Public
<1>13. \A o \in DriversService : ~Shared(o)
  BY DEF DriversService, Carrying, Public
<1>14. \A o \in ShipmentsService : ~Shared(o)
  BY DEF ShipmentsService, Carrying, Public
<1>15. \A o \in PrivateService : ~Shared(o)
  BY DEF PrivateService, Carrying, Public
<1>16. \A o \in Operations : ~Shared(o)
  BY <1>2, <1>3, <1>4, <1>5, <1>6, <1>7, <1>8,
     <1>9, <1>10, <1>11, <1>12, <1>13, <1>14, <1>15 DEF Operations
<1>17. QED
  BY <1>1, <1>16 DEF Secured, SecuredOperations

\* Showing another page does not leave the tab on a shared trip.
LEMMA ShowElsewhere ==
  ASSUME NEW s \in Tabs, NEW p \in Pages \cup {"failed"}, NEW token \in Carried, p # "shared"
  PROVE  Show(s, p, token).tab.page # "shared"
<1> DEFINE mounts == p \in UsesAuth \/ (p \in Observing \cup {"failed"} /\ ~InLayout(s))
           shown == [s EXCEPT !.page = p, !.going = None]
           subscribed == IF mounts THEN Subscribe(shown, token) ELSE shown
<1>1. shown \in Tabs /\ shown.page = p
  BY DEF Tabs
<1>2. subscribed \in Tabs
  BY <1>1, SubscribeType
<1>3. subscribed.page = p
  BY <1>1 DEF Subscribe, Tabs
<1>4. [subscribed EXCEPT !.page = "login"].page = "login"
  BY <1>2 DEF Tabs
<1>5. Show(s, p, token) = IF mounts /\ subscribed.status = "error"
                          THEN [tab |-> [subscribed EXCEPT !.page = "login"], stored |-> 0]
                          ELSE [tab |-> subscribed, stored |-> token]
  BY DEF Show
<1> HIDE DEF subscribed, mounts
<1>6. QED
  BY <1>3, <1>4, <1>5

LEMMA GoElsewhere ==
  ASSUME NEW s \in Tabs, NEW p \in Pages, NEW token \in Carried, p # "shared", s.page # "shared"
  PROVE  GoTo(s, p, token).tab.page # "shared"
<1>1. \A q \in Pages : q # "shared" => Show(s, q, token).tab.page # "shared"
  BY ShowElsewhere
<1>2. "login" \in Pages /\ "home" \in Pages
  BY DEF Pages, Entry, Layout
<1>3. CASE p \in Layout /\ token = 0
  BY <1>1, <1>2, <1>3 DEF GoTo
<1>4. CASE p \in Entry /\ token # 0
  <2>1. GoTo(s, p, token) = Show(s, "home", token)
    BY <1>4, EntryIsUnguarded DEF GoTo
  <2>2. QED
    BY <2>1, <1>1, <1>2
<1>5. CASE p \in Guarded /\ token # 0
  <2>1. p \notin Entry
    BY <1>5, EntryIsUnguarded
  <2>2. GoTo(s, p, token) =
          [tab |-> [s EXCEPT !.going = [to |-> p, token |-> token]], stored |-> token]
    BY <2>1, <1>5 DEF GoTo
  <2>3. QED
    BY <2>2 DEF Tabs
<1>6. CASE ~(p \in Layout /\ token = 0) /\ ~(p \in Entry /\ token # 0)
           /\ ~(p \in Guarded /\ token # 0)
  BY <1>1, <1>6 DEF GoTo
<1>7. QED
  BY <1>3, <1>4, <1>5, <1>6

LEMMA SignInElsewhere == SignInAgain.tab.page # "shared"
BY GoElsewhere, FreshType DEF SignInAgain, Fresh, Carried, Pages, Entry

\* A shared trip is opened in a page of its own, which nobody is signed in on.
LEMMA SharedIsFresh ==
  ASSUME NEW token \in Carried
  PROVE  GoTo(Fresh, "shared", token).tab = [Fresh EXCEPT !.page = "shared"]
<1>1. "shared" \notin Layout \cup Entry \cup Guarded
  BY DEF Layout, Entry, Guarded
<1>2. "shared" \notin UsesAuth /\ "shared" \notin Observing \cup {"failed"}
  BY DEF UsesAuth, Observing, Layout
<1>3. GoTo(Fresh, "shared", token) = Show(Fresh, "shared", token)
  <2>1. "shared" \notin Layout /\ "shared" \notin Entry /\ "shared" \notin Guarded
    BY <1>1
  <2>2. QED
    BY <2>1, Zenon DEF GoTo
<1>4. Show(Fresh, "shared", token) =
        [tab |-> [Fresh EXCEPT !.page = "shared", !.going = None], stored |-> token]
  <2> DEFINE mounts == \/ "shared" \in UsesAuth
                       \/ "shared" \in Observing \cup {"failed"} /\ ~InLayout(Fresh)
             shown == [Fresh EXCEPT !.page = "shared", !.going = None]
             subscribed == IF mounts THEN Subscribe(shown, token) ELSE shown
  <2>1. ~mounts
    BY <1>2
  <2>2. Show(Fresh, "shared", token) =
          IF mounts /\ subscribed.status = "error"
          THEN [tab |-> [subscribed EXCEPT !.page = "login"], stored |-> 0]
          ELSE [tab |-> subscribed, stored |-> token]
    BY DEF Show
  <2>3. subscribed = shown
    BY <2>1
  <2> HIDE DEF mounts, subscribed, shown
  <2>4. Show(Fresh, "shared", token) = [tab |-> shown, stored |-> token]
    BY <2>1, <2>2, <2>3
  <2>5. QED
    BY <2>4 DEF shown
<1>5. [Fresh EXCEPT !.page = "shared", !.going = None] = [Fresh EXCEPT !.page = "shared"]
  <2>1. Fresh.going = None /\ Fresh \in Tabs
    BY FreshType DEF Fresh
  <2>2. QED
    BY <2>1 DEF Tabs
<1>6. QED
  BY <1>3, <1>4, <1>5

\* A tab on a shared trip stays on it and asks for nothing else, unless the
\* user loads another page.
LEMMA OnShared ==
  ASSUME TypeOK, VisitorInv, tab.page = "shared", [Next]_vars
  PROVE  \/ \E p \in Openable : Load(p)
         \/ tab'.page = "shared" /\ VisitorInv'
<1>1. tab \in Tabs /\ tab.fetching = None /\ tab.going = None
      /\ (tab.call # None => tab.call.of = SharedTrip)
  BY SharedTripIsPublic DEF TypeOK, VisitorInv, Tabs
<1>2. ~InLayout(tab) /\ tab.page \notin Entry
  BY DEF InLayout, Layout, Entry
<1>3. ASSUME NEW p \in Openable, Open(p) PROVE FALSE
  BY <1>2, <1>3 DEF Open
<1>4. ~Refocus /\ ~Logout
  BY <1>2 DEF Refocus, Logout
<1>5. ASSUME NEW a, UserAnswers(a) \/ GuardAnswers(a) PROVE FALSE
  BY <1>1, <1>5 DEF UserAnswers, GuardAnswers
<1>6. ASSUME NEW u, SignedIn(u) PROVE FALSE
  BY <1>1, <1>6 DEF SignedIn, SharedTrip, SignIn, Request
<1>7. ~AccountDeleted
  BY <1>1 DEF AccountDeleted, SharedTrip, DeleteAccount, Request
<1>8. ASSUME NEW r \in Requests, Ask(r) PROVE tab'.page = "shared" /\ VisitorInv'
  <2>1. tab' = [tab EXCEPT !.call = [of |-> r, token |-> IF Secured(r.op) THEN stored ELSE 0]]
        /\ r.page = "shared"
    BY <1>8 DEF Ask
  <2>2. QED
    BY <2>1, <1>1 DEF VisitorInv, Tabs
<1>9. ASSUME NEW a, CallAnswers(a) PROVE tab'.page = "shared" /\ VisitorInv'
  <2>1. tab.call.of = SharedTrip /\ tab.call.of.to = tab.call.of.page
    BY <1>1, <1>9 DEF CallAnswers, SharedTrip, Request
  <2>2. a # "unauthorized"
    BY <2>1, <1>9, SharedTripIsPublic DEF CallAnswers, Answers, SharedTrip, Request
  <2>3. tab' = [tab EXCEPT !.call = None]
    BY <2>1, <2>2, <1>9 DEF CallAnswers, Becomes, Answered
  <2>4. QED
    BY <2>3, <1>1 DEF VisitorInv, Tabs
<1>10. ASSUME UNCHANGED tab PROVE tab'.page = "shared" /\ VisitorInv'
  BY <1>10 DEF VisitorInv
<1>11. QED
  BY <1>3, <1>4, <1>5, <1>6, <1>7, <1>8, <1>9, <1>10
  DEF Next, UserMoves, Respond, OtherTabSignsIn, OtherTabSignsOut, Expire, vars

\* A tab gets to a shared trip by loading it.
LEMMA OffShared ==
  ASSUME TypeOK, tab.page # "shared", [Next]_vars
  PROVE  VisitorInv'
<1>1. tab \in Tabs /\ stored \in Carried /\ 0 \in Carried /\ Answered \in Tabs
      /\ Answered.page # "shared"
  BY DEF TypeOK, Carried, Tabs, Answered
<1>2. SUFFICES ASSUME tab'.page = "shared" PROVE VisitorInv'
  BY DEF VisitorInv
<1>3. ASSUME NEW p \in Openable, Load(p) PROVE VisitorInv'
  <2>1. tab' = GoTo(Fresh, p, stored).tab /\ p \in Pages
    BY <1>3, SessionAssumption DEF Load, Becomes
  <2>2. p = "shared"
    BY <2>1, <1>1, <1>2, GoElsewhere, FreshType DEF Fresh
  <2>3. tab' = [Fresh EXCEPT !.page = "shared"]
    BY <2>1, <2>2, <1>1, SharedIsFresh
  <2>4. QED
    BY <2>3 DEF VisitorInv, Fresh
<1>4. ASSUME NEW p \in Openable, Open(p) PROVE FALSE
  <2>1. p # "shared" /\ p \in Pages /\ tab' = GoTo(tab, p, stored).tab
    BY <1>4 DEF Open, Becomes, Layout, Entry, Pages
  <2>2. QED
    BY <2>1, <1>1, <1>2, GoElsewhere
<1>5. ~Refocus
  BY <1>1, <1>2 DEF Refocus, Tabs
<1>6. ASSUME NEW a, UserAnswers(a) PROVE FALSE
  <2>1. CASE a = "unauthorized"
    BY <1>2, <1>6, <2>1, SignInElsewhere DEF UserAnswers, Becomes
  <2>2. CASE a # "unauthorized"
    <3>1. a \in {"ok", "refused", "failed"}
      BY <1>6, <2>2 DEF UserAnswers, Answers
    <3>2. tab'.page \in {tab.page, "login"}
      BY <1>1, <1>6, <3>1 DEF UserAnswers, Becomes, Tabs
    <3>3. QED
      BY <3>2, <1>2
  <2>3. QED
    BY <2>1, <2>2
<1>7. ASSUME NEW a, GuardAnswers(a) PROVE FALSE
  <2> DEFINE p == tab.going.to
             land == IF a = "ok" THEN Landing(p, owner[tab.going.token]) ELSE "failed"
             arrived == [tab EXCEPT !.going = None]
  <2>1. arrived \in Tabs /\ arrived.page # "shared"
    BY <1>1 DEF Tabs
  <2>2. p \in Guarded
    BY <1>1, <1>7 DEF Tabs, GuardAnswers
  <2>3. p # "shared" /\ (land \in Pages \/ land = "failed")
    BY <2>2, LandingIsPage DEF Guarded, Layout
  <2>4. land # "shared"
    BY <2>2 DEF Landing, Guarded, Layout
  <2>5. tab' = (IF land \in {p, "failed"} THEN Show(arrived, land, stored)
                ELSE GoTo(arrived, land, stored)).tab
    BY <1>7 DEF GuardAnswers, Becomes
  <2> HIDE DEF p, land, arrived
  <2>6. CASE land \in {p, "failed"}
    BY <2>1, <2>3, <2>4, <2>5, <2>6, <1>1, <1>2, ShowElsewhere
  <2>7. CASE land \notin {p, "failed"}
    BY <2>1, <2>3, <2>4, <2>5, <2>7, <1>1, <1>2, GoElsewhere
  <2>8. QED
    BY <2>6, <2>7
<1>8. ASSUME NEW r \in Requests, Ask(r) PROVE FALSE
  BY <1>1, <1>2, <1>8 DEF Ask, Tabs
<1>9. ASSUME NEW u \in Users, SignedIn(u) PROVE FALSE
  <2>1. tab' = GoTo(Answered, "home", Len(owner')).tab
    BY <1>9 DEF SignedIn, Becomes, SignIn, Request
  <2>2. Len(owner') \in Carried
    BY <1>9, SessionAssumption DEF SignedIn, TypeOK, Carried, Tokens
  <2>3. QED
    BY <2>1, <2>2, <1>1, <1>2, GoElsewhere DEF Pages, Layout
<1>10. ~AccountDeleted
  <2> SUFFICES ASSUME AccountDeleted PROVE FALSE
    OBVIOUS
  <2> DEFINE s == [Answered EXCEPT !.fetching = IF InLayout(tab) THEN 0 ELSE @]
  <2>1. s \in Tabs /\ s.page # "shared"
    BY <1>1 DEF Tabs
  <2>2. tab' = GoTo(s, "login", 0).tab
    BY DEF AccountDeleted, Becomes, DeleteAccount, Request
  <2> HIDE DEF s
  <2>3. QED
    BY <2>1, <2>2, <1>1, <1>2, GoElsewhere DEF Pages, Entry
<1>11. ASSUME NEW a, CallAnswers(a) PROVE FALSE
  <2>1. tab.call.of \in Requests
    BY <1>1, <1>11 DEF CallAnswers, Tabs
  <2>2. tab.call.of.to \in Pages
    BY <2>1 DEF Requests, SignIn, SignUp, RecoverPassword, ResetPassword, SharedTrip,
                ChangePassword, ChangeProfile, DeleteAccount, Content, Request, Pages, Entry, Layout
  <2>3. tab.call.of.to = "shared" => tab.call.of.page = "shared"
    BY <2>1 DEF Requests, SignIn, SignUp, RecoverPassword, ResetPassword, SharedTrip,
                ChangePassword, ChangeProfile, DeleteAccount, Content, Request
  <2>4. \/ tab' = SignInAgain.tab
        \/ /\ tab.call.of.to # tab.call.of.page
           /\ tab' = GoTo(Answered, tab.call.of.to, stored).tab
        \/ tab' = Answered
    BY <1>11 DEF CallAnswers, Becomes
  <2>5. QED
    BY <2>2, <2>3, <2>4, <1>1, <1>2, GoElsewhere, SignInElsewhere
<1>12. ~Logout
  BY <1>1, <1>2, GoElsewhere DEF Logout, Becomes, Pages, Entry
<1>13. tab' # tab
  BY <1>2
<1>14. QED
  BY <1>3, <1>4, <1>5, <1>6, <1>7, <1>8, <1>9, <1>10, <1>11, <1>12, <1>13
  DEF Next, UserMoves, Respond, OtherTabSignsIn, OtherTabSignsOut, Expire, vars

\* No answer, no other tab and no expired token takes a visitor away from a
\* shared trip: only loading another page does.
THEOREM VisitorAlwaysStays == Spec => VisitorStays
<1>1. Init => VisitorInv
  <2> SUFFICES ASSUME Init PROVE VisitorInv
    OBVIOUS
  <2>1. tab.page # "shared"
    BY SignInElsewhere DEF Init, SignInAgain
  <2>2. QED
    BY <2>1 DEF VisitorInv
<1>2. TypeOK /\ VisitorInv /\ [Next]_vars =>
        [tab.page = "shared" /\ tab'.page # "shared" => \E p \in Openable : Load(p)]_vars
  BY OnShared
<1>3. TypeOK /\ VisitorInv /\ [Next]_vars => VisitorInv'
  <2> SUFFICES ASSUME TypeOK, VisitorInv, [Next]_vars PROVE VisitorInv'
    OBVIOUS
  <2>1. CASE tab.page # "shared"
    BY <2>1, OffShared
  <2>2. ASSUME tab.page = "shared", NEW p \in Openable, Load(p) PROVE VisitorInv'
    <3>1. tab' = GoTo(Fresh, p, stored).tab /\ p \in Pages /\ stored \in Carried
      BY <2>2, SessionAssumption DEF Load, Becomes, TypeOK
    <3>2. CASE p = "shared"
      BY <3>1, <3>2, SharedIsFresh DEF VisitorInv, Fresh
    <3>3. CASE p # "shared"
      BY <3>1, <3>3, GoElsewhere, FreshType DEF VisitorInv, Fresh
    <3>4. QED
      BY <3>2, <3>3
  <2>3. QED
    BY <2>1, <2>2, OnShared
<1>4. QED
  BY <1>1, <1>2, <1>3, TypeCorrect, PTL DEF Spec, VisitorStays

(***************************************************************************)
(* A refused tab leaves.                                                   *)
(***************************************************************************)

\* A page that opens leaves the request under way alone, and puts no other token
\* in storage.
LEMMA ShowKeepsRequest ==
  ASSUME NEW s \in Tabs, NEW p \in Pages \cup {"failed"}, NEW token \in Carried
  PROVE  /\ s.fetching # None => Show(s, p, token).tab.fetching = s.fetching
         /\ Show(s, p, token).stored \in {token, 0}
<1> DEFINE mounts == p \in UsesAuth \/ (p \in Observing \cup {"failed"} /\ ~InLayout(s))
           shown == [s EXCEPT !.page = p, !.going = None]
           subscribed == IF mounts THEN Subscribe(shown, token) ELSE shown
<1>1. shown \in Tabs /\ shown.fetching = s.fetching
  BY DEF Tabs
<1>2. subscribed \in Tabs
  BY <1>1, SubscribeType
<1>3. s.fetching # None => subscribed.fetching = s.fetching
  BY <1>1 DEF Subscribe
<1>4. Show(s, p, token) = IF mounts /\ subscribed.status = "error"
                          THEN [tab |-> [subscribed EXCEPT !.page = "login"], stored |-> 0]
                          ELSE [tab |-> subscribed, stored |-> token]
  BY DEF Show
<1> HIDE DEF subscribed, mounts
<1>5. [subscribed EXCEPT !.page = "login"].fetching = subscribed.fetching
  BY <1>2 DEF Tabs
<1>6. QED
  BY <1>3, <1>4, <1>5

LEMMA GoToKeepsRequest ==
  ASSUME NEW s \in Tabs, NEW p \in Pages, NEW token \in Carried
  PROVE  /\ s.fetching # None => GoTo(s, p, token).tab.fetching = s.fetching
         /\ GoTo(s, p, token).stored \in {token, 0}
<1>1. \A q \in Pages :
        /\ s.fetching # None => Show(s, q, token).tab.fetching = s.fetching
        /\ Show(s, q, token).stored \in {token, 0}
  BY ShowKeepsRequest
<1>2. "login" \in Pages /\ "home" \in Pages
  BY DEF Pages, Entry, Layout
<1> DEFINE waiting == [s EXCEPT !.going = [to |-> p, token |-> token]]
<1>3. waiting.fetching = s.fetching
  BY DEF Tabs
<1> HIDE DEF waiting
<1>4. CASE p \in Layout /\ token = 0
  BY <1>1, <1>2, <1>4 DEF GoTo
<1>5. CASE p \in Entry /\ token # 0
  <2>1. GoTo(s, p, token) = Show(s, "home", token)
    BY <1>5, EntryIsUnguarded DEF GoTo
  <2>2. QED
    BY <2>1, <1>1, <1>2
<1>6. CASE p \in Guarded /\ token # 0
  <2>1. p \notin Entry
    BY <1>6, EntryIsUnguarded
  <2>2. GoTo(s, p, token) = [tab |-> waiting, stored |-> token]
    BY <2>1, <1>6 DEF GoTo, waiting
  <2>3. QED
    BY <2>2, <1>3
<1>7. CASE ~(p \in Layout /\ token = 0) /\ ~(p \in Entry /\ token # 0)
           /\ ~(p \in Guarded /\ token # 0)
  BY <1>1, <1>7 DEF GoTo
<1>8. QED
  BY <1>4, <1>5, <1>6, <1>7

\* Signing out shows the login page.
LEMMA LoginShows ==
  ASSUME NEW s \in Tabs
  PROVE  GoTo(s, "login", 0).tab.page = "login"
<1> DEFINE shown == [s EXCEPT !.page = "login", !.going = None]
           subscribed == IF "login" \in UsesAuth \/ ("login" \in Observing \cup {"failed"} /\ ~InLayout(s))
                         THEN Subscribe(shown, 0) ELSE shown
<1>1. GoTo(s, "login", 0) = Show(s, "login", 0)
  BY DEF GoTo
<1>2. subscribed = shown
  BY DEF Subscribe
<1> DEFINE sent == [subscribed EXCEPT !.page = "login"]
<1>3. subscribed.page = "login" /\ sent.page = "login"
  BY <1>2 DEF Tabs
<1>4. \/ Show(s, "login", 0) = [tab |-> sent, stored |-> 0]
      \/ Show(s, "login", 0) = [tab |-> subscribed, stored |-> 0]
  BY DEF Show
<1> HIDE DEF subscribed, shown, sent
<1>5. Show(s, "login", 0).tab.page = "login"
  BY <1>3, <1>4
<1>6. QED
  BY <1>1, <1>5

\* A page of the layout that loads from scratch asks who is signed in.
LEMMA FreshAsks ==
  ASSUME NEW p \in Pages, NEW token \in Carried, InLayout(GoTo(Fresh, p, token).tab)
  PROVE  token # 0 /\ GoTo(Fresh, p, token).tab.fetching = token
         /\ GoTo(Fresh, p, token).stored = token
<1>1. Fresh \in Tabs
  BY FreshType
<1>2. "login" \notin Layout \cup {"failed"} /\ "none" \notin Layout \cup {"failed"}
      /\ "home" \in Layout /\ "home" \notin Entry /\ "failed" \notin Pages
      /\ ~InLayout(Fresh)
  BY DEF Layout, Entry, Pages, InLayout, Fresh
<1>3. ASSUME NEW q \in Pages, InLayout(Show(Fresh, q, token).tab)
      PROVE  /\ q \in Layout
             /\ token # 0 => /\ Show(Fresh, q, token).tab.fetching = token
                             /\ Show(Fresh, q, token).stored = token
  <2> DEFINE mounts == q \in UsesAuth \/ (q \in Observing \cup {"failed"} /\ ~InLayout(Fresh))
             shown == [Fresh EXCEPT !.page = q, !.going = None]
             subscribed == IF mounts THEN Subscribe(shown, token) ELSE shown
  <2>1. /\ shown \in Tabs /\ shown.fetching = None /\ shown.page = q
        /\ shown.status = "pending" /\ shown.user = None
    BY <1>1 DEF Fresh, Tabs
  <2>8. Show(Fresh, q, token) = IF mounts /\ subscribed.status = "error"
                                THEN [tab |-> [subscribed EXCEPT !.page = "login"], stored |-> 0]
                                ELSE [tab |-> subscribed, stored |-> token]
    BY DEF Show
  <2> HIDE DEF shown
  <2>9. \/ subscribed = shown
        \/ subscribed = [shown EXCEPT !.fetching = token, !.status = "pending"]
    BY <2>1 DEF Subscribe
  <2>2. subscribed.page = q /\ subscribed.status = "pending"
    BY <2>1, <2>9 DEF Tabs
  <2>3. Show(Fresh, q, token) = [tab |-> subscribed, stored |-> token]
    BY <2>2, <2>8
  <2>4. q \in Layout
    BY <1>2, <1>3, <2>2, <2>3 DEF InLayout
  <2>5. mounts
    BY <1>2, <2>4 DEF Observing
  <2>6. token # 0 => subscribed.fetching = token
    BY <2>1, <2>5 DEF Subscribe, Tabs
  <2>7. QED
    BY <2>3, <2>4, <2>6
<1>4. CASE p \in Layout /\ token = 0
  <2>1. GoTo(Fresh, p, token).tab.page = "login"
    <3>1. GoTo(Fresh, p, token) = GoTo(Fresh, "login", 0)
      BY <1>4 DEF GoTo, Layout, Entry, Guarded
    <3>2. QED
      BY <3>1, <1>1, LoginShows
  <2>2. QED
    BY <1>2, <2>1 DEF InLayout
<1>5. CASE p \in Entry /\ token # 0
  <2>1. GoTo(Fresh, p, token) = Show(Fresh, "home", token)
    BY <1>5, EntryIsUnguarded DEF GoTo
  <2>2. "home" \in Pages
    BY <1>2 DEF Pages
  <2>3. QED
    BY <1>3, <1>5, <2>1, <2>2
<1>6. CASE p \in Guarded /\ token # 0
  <2>1. p \notin Entry
    BY <1>6, EntryIsUnguarded
  <2>2. GoTo(Fresh, p, token).tab = [Fresh EXCEPT !.going = [to |-> p, token |-> token]]
    BY <2>1, <1>6 DEF GoTo
  <2>3. QED
    BY <1>2, <2>2 DEF InLayout, Fresh
<1>7. CASE ~(p \in Layout /\ token = 0) /\ ~(p \in Entry /\ token # 0)
           /\ ~(p \in Guarded /\ token # 0)
  <2>1. GoTo(Fresh, p, token) = Show(Fresh, p, token)
    BY <1>7 DEF GoTo
  <2>2. QED
    BY <1>3, <1>7, <2>1
<1>8. QED
  BY <1>4, <1>5, <1>6, <1>7

\* What is in storage the backend has issued.
Issued == stored \in DOMAIN owner \cup {0}

\* The tab asks, behind a page of the layout, with a token the backend refuses.
Refused == InLayout(tab) /\ tab.fetching \in DOMAIN owner \ valid

LEMMA IssuedKept == TypeOK /\ Issued /\ [Next]_vars => Issued'
<1> SUFFICES ASSUME TypeOK, Issued, [Next]_vars PROVE Issued'
  OBVIOUS
<1>1. /\ stored \in Carried /\ tab \in Tabs /\ Answered \in Tabs
      /\ owner \in Seq(Users) /\ Len(owner) \in Nat /\ 0 \in Carried
  BY DEF TypeOK, Carried, Answered, Tabs
<1>2. ASSUME UNCHANGED owner, stored' \in {stored, 0} PROVE Issued'
  BY <1>2 DEF Issued
<1>3. ASSUME NEW p \in Openable, Load(p) \/ Open(p) PROVE Issued'
  BY <1>1, <1>2, <1>3, GoToKeepsRequest, FreshType, SessionAssumption
  DEF Load, Open, Becomes, Pages
<1>4. SignInAgain.stored = 0
  BY GoToKeepsRequest, FreshType DEF SignInAgain, Carried, Pages, Entry
<1>5. ASSUME NEW a, UserAnswers(a) PROVE Issued'
  BY <1>1, <1>2, <1>4, <1>5 DEF UserAnswers, Becomes, Answers
<1>6. ASSUME NEW a, GuardAnswers(a) PROVE Issued'
  <2> DEFINE p == tab.going.to
             land == IF a = "ok" THEN Landing(p, owner[tab.going.token]) ELSE "failed"
             arrived == [tab EXCEPT !.going = None]
  <2>1. arrived \in Tabs
    BY <1>1 DEF Tabs
  <2>2. p \in Guarded
    BY <1>1, <1>6 DEF Tabs, GuardAnswers
  <2>3. p \in Pages /\ (land \in Pages \/ land = "failed")
    BY <2>2, LandingIsPage DEF Guarded, Pages
  <2>4. /\ stored' = (IF land \in {p, "failed"} THEN Show(arrived, land, stored)
                      ELSE GoTo(arrived, land, stored)).stored
        /\ UNCHANGED owner
    BY <1>6 DEF GuardAnswers, Becomes
  <2> HIDE DEF p, land, arrived
  <2>5. CASE land \in {p, "failed"}
    BY <2>1, <2>3, <2>4, <2>5, <1>1, <1>2, ShowKeepsRequest
  <2>6. CASE land \notin {p, "failed"}
    BY <2>1, <2>3, <2>4, <2>6, <1>1, <1>2, GoToKeepsRequest
  <2>7. QED
    BY <2>5, <2>6
<1>7. ASSUME NEW u \in Users, SignedIn(u) PROVE Issued'
  <2>1. /\ owner' \in Seq(Users) /\ Len(owner') = Len(owner) + 1 /\ Len(owner) < MaxTokens
        /\ stored' = GoTo(Answered, "home", Len(owner')).stored
    BY <1>1, <1>7 DEF SignedIn, Becomes, SignIn, Request
  <2>2. Len(owner') \in Carried /\ Len(owner') \in DOMAIN owner'
    BY <1>1, <2>1, SessionAssumption DEF Carried, Tokens
  <2>3. stored' \in {Len(owner'), 0}
    BY <1>1, <2>1, <2>2, GoToKeepsRequest DEF Pages, Layout
  <2>4. QED
    BY <2>2, <2>3 DEF Issued
<1>8. CASE AccountDeleted
  <2> DEFINE s == [Answered EXCEPT !.fetching = IF InLayout(tab) THEN 0 ELSE @]
  <2>1. s \in Tabs
    BY <1>1 DEF Tabs
  <2>2. stored' = GoTo(s, "login", 0).stored /\ UNCHANGED owner
    BY <1>8 DEF AccountDeleted, Becomes, DeleteAccount, Request
  <2> HIDE DEF s
  <2>3. QED
    BY <2>1, <2>2, <1>1, <1>2, GoToKeepsRequest DEF Pages, Entry
<1>9. ASSUME NEW a, CallAnswers(a) PROVE Issued'
  <2>1. tab.call.of \in Requests
    BY <1>1, <1>9 DEF CallAnswers, Tabs
  <2>2. tab.call.of.to \in Pages
    BY <2>1 DEF Requests, SignIn, SignUp, RecoverPassword, ResetPassword, SharedTrip,
                ChangePassword, ChangeProfile, DeleteAccount, Content, Request, Pages, Entry, Layout
  <2>3. \/ stored' = SignInAgain.stored
        \/ stored' = GoTo(Answered, tab.call.of.to, stored).stored
        \/ stored' = stored
    BY <1>9 DEF CallAnswers, Becomes
  <2>4. QED
    BY <2>2, <2>3, <1>1, <1>2, <1>4, <1>9, GoToKeepsRequest DEF CallAnswers
<1>10. CASE Logout
  BY <1>1, <1>2, <1>10, GoToKeepsRequest DEF Logout, Becomes, Pages, Entry
<1>11. ASSUME NEW u \in Users, OtherTabSignsIn(u) PROVE Issued'
  BY <1>1, <1>11 DEF OtherTabSignsIn, Issued
<1>12. ASSUME NEW r, Ask(r) PROVE Issued'
  BY <1>2, <1>12 DEF Ask
<1>13. ASSUME NEW k, Expire(k) PROVE Issued'
  BY <1>2, <1>13 DEF Expire
<1>14. CASE Refocus \/ OtherTabSignsOut \/ UNCHANGED vars
  BY <1>2, <1>14 DEF Refocus, OtherTabSignsOut, vars
<1>15. QED
  BY <1>3, <1>5, <1>6, <1>7, <1>8, <1>9, <1>10, <1>11, <1>12, <1>13, <1>14
  DEF Next, UserMoves, Respond

\* The answer to a question asked with a refused token signs the tab out.
LEMMA AnswerSignsOut ==
  ASSUME TypeOK, Refused, NEW a, UserAnswers(a)
  PROVE  ~InLayout(tab)'
<1>1. tab \in Tabs /\ tab.fetching \in DOMAIN owner \ valid /\ tab.fetching # 0
  BY DEF TypeOK, Refused
<1>2. a \in {"refused", "failed"}
  BY <1>1, WhoAmICarriesToken DEF UserAnswers, Answers
<1>3. tab.page \in Observing \cup {"failed"}
  BY DEF Refused, InLayout, Observing
<1> DEFINE failed == [[tab EXCEPT !.fetching = None] EXCEPT !.status = "error"]
<1>4. tab' = [failed EXCEPT !.page = "login", !.going = None]
  BY <1>2, <1>3 DEF UserAnswers, Becomes
<1>5. tab'.page = "login"
  BY <1>4, <1>1 DEF Tabs
<1>6. QED
  BY <1>5 DEF InLayout, Layout

\* Until its question is answered the tab goes on asking it, or leaves, or
\* another token takes the place of the refused one.
LEMMA RefusedGoesOn ==
  TypeOK /\ Issued /\ Refused /\ [Next]_vars
    => Refused' \/ ~InLayout(tab)' \/ stored' \in valid'
<1> SUFFICES ASSUME TypeOK, Issued, Refused, [Next]_vars, InLayout(tab)', stored' \notin valid'
             PROVE  Refused'
  OBVIOUS
<1>1. /\ stored \in Carried /\ tab \in Tabs /\ Answered \in Tabs
      /\ owner \in Seq(Users) /\ Len(owner) \in Nat /\ Len(owner) <= MaxTokens
      /\ valid \subseteq DOMAIN owner /\ 0 \in Carried
      /\ DOMAIN owner = 1 .. Len(owner)
  BY DEF TypeOK, Carried, Answered, Tabs
<1>2. tab.fetching \in DOMAIN owner \ valid
  BY DEF Refused
<1>3. tab.fetching # None /\ tab.fetching # 0 /\ Answered.fetching = tab.fetching
  BY <1>1, <1>2, SessionAssumption DEF Answered, Tabs
<1>4. ASSUME tab'.fetching = tab.fetching, UNCHANGED owner, valid' \subseteq valid
      PROVE  Refused'
  BY <1>2, <1>4 DEF Refused
<1>5. "login" \in Pages /\ "login" \notin Layout \cup {"failed"}
  BY DEF Pages, Entry, Layout
<1>6. SignInAgain.tab.page = "login"
  BY LoginShows, FreshType DEF SignInAgain
<1>7. tab'.page # "login"
  BY <1>5 DEF InLayout
<1>8. ASSUME NEW p \in Openable, Load(p) PROVE Refused'
  <2>1. /\ p \in Pages /\ tab' = GoTo(Fresh, p, stored).tab
        /\ stored' = GoTo(Fresh, p, stored).stored /\ UNCHANGED <<owner, valid>>
    BY <1>8, SessionAssumption DEF Load, Becomes
  <2>2. InLayout(GoTo(Fresh, p, stored).tab)
    BY <2>1 DEF InLayout
  <2>3. stored # 0 /\ tab'.fetching = stored /\ stored' = stored
    BY <2>1, <2>2, <1>1, FreshAsks
  <2>4. QED
    BY <2>1, <2>3 DEF Refused, Issued
<1>9. ASSUME NEW p \in Openable, Open(p) PROVE Refused'
  <2>1. p \in Pages /\ tab' = GoTo(tab, p, stored).tab /\ UNCHANGED <<owner, valid>>
    BY <1>9, SessionAssumption DEF Open, Becomes
  <2>2. QED
    BY <2>1, <1>1, <1>3, <1>4, GoToKeepsRequest
<1>10. ~Refocus
  BY <1>3 DEF Refocus
<1>11. ASSUME NEW a, UserAnswers(a) PROVE FALSE
  BY <1>11, AnswerSignsOut
<1>12. ASSUME NEW a, GuardAnswers(a) PROVE Refused'
  <2> DEFINE p == tab.going.to
             land == IF a = "ok" THEN Landing(p, owner[tab.going.token]) ELSE "failed"
             arrived == [tab EXCEPT !.going = None]
  <2>1. arrived \in Tabs /\ arrived.fetching = tab.fetching
    BY <1>1 DEF Tabs
  <2>2. p \in Guarded
    BY <1>1, <1>12 DEF Tabs, GuardAnswers
  <2>3. p \in Pages /\ (land \in Pages \/ land = "failed")
    BY <2>2, LandingIsPage DEF Guarded, Pages
  <2>4. /\ tab' = (IF land \in {p, "failed"} THEN Show(arrived, land, stored)
                   ELSE GoTo(arrived, land, stored)).tab
        /\ UNCHANGED <<owner, valid>>
    BY <1>12 DEF GuardAnswers, Becomes
  <2> HIDE DEF p, land, arrived
  <2>5. tab'.fetching = tab.fetching
    <3>1. CASE land \in {p, "failed"}
      BY <2>1, <2>3, <2>4, <3>1, <1>1, <1>3, ShowKeepsRequest
    <3>2. CASE land \notin {p, "failed"}
      BY <2>1, <2>3, <2>4, <3>2, <1>1, <1>3, GoToKeepsRequest
    <3>3. QED
      BY <3>1, <3>2
  <2>6. QED
    BY <2>4, <2>5, <1>4
<1>13. ASSUME NEW u \in Users, SignedIn(u) PROVE Refused'
  <2>1. /\ DOMAIN owner' = 1 .. Len(owner) + 1 /\ Len(owner') = Len(owner) + 1
        /\ Len(owner) < MaxTokens /\ valid' = valid \cup {Len(owner) + 1}
        /\ tab' = GoTo(Answered, "home", Len(owner')).tab
    BY <1>1, <1>13 DEF SignedIn, Becomes, SignIn, Request
  <2>2. Len(owner') \in Carried /\ "home" \in Pages
    BY <1>1, <2>1, SessionAssumption DEF Carried, Tokens, Pages, Layout
  <2>3. tab'.fetching = tab.fetching
    BY <1>1, <1>3, <2>1, <2>2, GoToKeepsRequest
  <2>4. tab.fetching \in DOMAIN owner' \ valid'
    BY <1>1, <1>2, <2>1
  <2>5. QED
    BY <2>3, <2>4 DEF Refused
<1>14. ~AccountDeleted
  <2> SUFFICES ASSUME AccountDeleted PROVE FALSE
    OBVIOUS
  <2> DEFINE s == [Answered EXCEPT !.fetching = IF InLayout(tab) THEN 0 ELSE @]
  <2>1. s \in Tabs
    BY <1>1 DEF Tabs
  <2>2. tab' = GoTo(s, "login", 0).tab
    BY DEF AccountDeleted, Becomes, DeleteAccount, Request
  <2> HIDE DEF s
  <2>3. QED
    BY <2>1, <2>2, <1>7, LoginShows
<1>15. ASSUME NEW a, CallAnswers(a) PROVE Refused'
  <2>1. tab.call.of \in Requests
    BY <1>1, <1>15 DEF CallAnswers, Tabs
  <2>2. tab.call.of.to \in Pages
    BY <2>1 DEF Requests, SignIn, SignUp, RecoverPassword, ResetPassword, SharedTrip,
                ChangePassword, ChangeProfile, DeleteAccount, Content, Request, Pages, Entry, Layout
  <2>3. \/ tab' = SignInAgain.tab
        \/ tab' = GoTo(Answered, tab.call.of.to, stored).tab
        \/ tab' = Answered
    BY <1>15 DEF CallAnswers, Becomes
  <2>4. tab'.fetching = tab.fetching
    BY <2>2, <2>3, <1>1, <1>3, <1>6, <1>7, GoToKeepsRequest
  <2>5. QED
    BY <2>4, <1>4, <1>15 DEF CallAnswers
<1>16. ~Logout
  BY <1>1, <1>7, LoginShows DEF Logout, Becomes
<1>17. ASSUME NEW u \in Users, OtherTabSignsIn(u) PROVE FALSE
  BY <1>17 DEF OtherTabSignsIn
<1>18. ASSUME NEW r, Ask(r) PROVE Refused'
  <2>1. tab'.fetching = tab.fetching
    BY <1>1, <1>18 DEF Ask, Tabs
  <2>2. QED
    BY <2>1, <1>4, <1>18 DEF Ask
<1>19. ASSUME NEW k, Expire(k) PROVE Refused'
  BY <1>4, <1>19 DEF Expire
<1>20. CASE OtherTabSignsOut \/ UNCHANGED vars
  BY <1>4, <1>20 DEF OtherTabSignsOut, vars
<1>21. QED
  BY <1>8, <1>9, <1>10, <1>11, <1>12, <1>13, <1>14, <1>15, <1>16, <1>17, <1>18, <1>19, <1>20
  DEF Next, UserMoves, Respond

\* The answer of the backend to the question who is signed in.
Answer == \E a \in {"ok", "failed", "unauthorized", "refused"} : UserAnswers(a)

\* A question that is under way can be answered: what the guard of UserAnswers
\* says, as a hypothesis, for the prover does not reason about ENABLED.
CanBeAnswered == tab.fetching # None => ENABLED <<Answer>>_vars

Left == ~InLayout(tab) \/ stored \in valid

LEMMA RefusedLeaves == FairSpec /\ []CanBeAnswered => (Refused ~> Left)
<1>1. Init => Issued
  BY GoToKeepsRequest DEF Init, Issued
<1>2. TypeOK /\ Issued /\ [Next]_vars => Issued'
  BY IssuedKept
<1>3. TypeOK /\ Issued /\ Refused /\ [Next]_vars => Refused' \/ Left'
  BY RefusedGoesOn DEF Left
<1>4. TypeOK /\ Issued /\ Refused /\ <<Answer>>_vars => Left'
  BY AnswerSignsOut DEF Answer, Left
<1>5. TypeOK /\ Refused => tab.fetching # None
  BY SessionAssumption DEF TypeOK, Refused
<1>6. TypeOK /\ Refused /\ CanBeAnswered => ENABLED <<Answer>>_vars
  BY <1>5 DEF CanBeAnswered
<1>7. FairSpec => WF_vars(Answer)
  BY PTL DEF FairSpec, Fairness, Answer
<1>8. QED
  BY <1>1, <1>2, <1>3, <1>4, <1>6, <1>7, TypeCorrect, PTL DEF FairSpec, Spec

LEMMA RefusedTokenLeaves ==
  ASSUME NEW k \in Tokens
  PROVE  FairSpec /\ []CanBeAnswered =>
           ((InLayout(tab) /\ tab.fetching = k /\ k \in DOMAIN owner \ valid)
              ~> (~InLayout(tab) \/ stored \in valid))
<1>1. InLayout(tab) /\ tab.fetching = k /\ k \in DOMAIN owner \ valid => Refused
  BY DEF Refused
<1>2. Left => ~InLayout(tab) \/ stored \in valid
  BY DEF Left
<1>3. QED
  BY <1>1, <1>2, RefusedLeaves, PTL

\* A tab that asks who it is with a token the backend refuses leaves the layout
\* or has another token by then, for any number of tokens and whatever the user,
\* the backend and the other tabs do meanwhile: the answer it waits for can be
\* overtaken but not lost.
THEOREM RefusedTabsAlwaysLeave == FairSpec /\ []CanBeAnswered => RefusedTabsLeave
BY RefusedTokenLeaves DEF RefusedTabsLeave

(***************************************************************************)
(* The checks of the guarded pages end.                                    *)
(***************************************************************************)

\* A user stays on p, or is sent to a page nobody is checked for.
Rests(p, u) == Landing(p, u) = p \/ Landing(p, u) \notin Guarded

\* One redirect is enough: the guards of two pages never send a user back and
\* forth, whatever his role and rights.
LEMMA OneRedirect ==
  ASSUME NEW p \in Guarded, NEW u, Landing(p, u) \in Guarded
  PROVE  Rests(Landing(p, u), u)
<1>1. CASE p \in {"trips", "trip"} /\ Role[u] = "driver"
  <2>1. Landing(p, u) = "myTrips" /\ Landing("myTrips", u) = "myTrips"
    BY <1>1 DEF Landing
  <2>2. QED
    BY <2>1 DEF Rests
<1>2. CASE p \in {"myTrips", "myTrip"} /\ Role[u] # "driver"
  <2>1. Landing(p, u) = "trips" /\ Landing("trips", u) = "trips"
    BY <1>2 DEF Landing
  <2>2. QED
    BY <2>1 DEF Rests
<1>3. CASE p = "newVehicle" /\ ~Superuser[u]
  <2>1. Landing(p, u) = "fleet" /\ Landing("fleet", u) \in {"fleet", "home"}
    BY <1>3 DEF Landing
  <2>2. QED
    BY <2>1 DEF Rests, Guarded
<1>4. CASE Landing(p, u) \in {p, "home"}
  BY <1>4 DEF Rests, Guarded
<1>5. QED
  BY <1>1, <1>2, <1>3, <1>4 DEF Landing

\* A page that opens ends the check under way.
LEMMA ShowEndsCheck ==
  ASSUME NEW s \in Tabs, NEW p \in Pages \cup {"failed"}, NEW token \in Carried
  PROVE  Show(s, p, token).tab.going = None
<1> DEFINE mounts == p \in UsesAuth \/ (p \in Observing \cup {"failed"} /\ ~InLayout(s))
           shown == [s EXCEPT !.page = p, !.going = None]
           subscribed == IF mounts THEN Subscribe(shown, token) ELSE shown
           sent == [subscribed EXCEPT !.page = "login"]
<1>1. shown \in Tabs /\ shown.going = None
  BY DEF Tabs
<1>2. subscribed \in Tabs
  BY <1>1, SubscribeType
<1>3. subscribed.going = None
  BY <1>1 DEF Subscribe, Tabs
<1>4. Show(s, p, token) = IF mounts /\ subscribed.status = "error"
                          THEN [tab |-> sent, stored |-> 0]
                          ELSE [tab |-> subscribed, stored |-> token]
  BY DEF Show
<1> HIDE DEF subscribed, mounts
<1>5. sent.going = None
  BY <1>2, <1>3 DEF Tabs
<1> HIDE DEF sent
<1>6. QED
  BY <1>3, <1>4, <1>5

\* The router begins a check only for a guarded page, with the token in storage.
LEMMA GoToChecks ==
  ASSUME NEW s \in Tabs, NEW p \in Pages, NEW token \in Carried
  PROVE  \/ GoTo(s, p, token).tab.going = None
         \/ /\ p \in Guarded
            /\ GoTo(s, p, token).tab.going = [to |-> p, token |-> token]
<1>1. \A q \in Pages : Show(s, q, token).tab.going = None
  BY ShowEndsCheck
<1>2. "login" \in Pages /\ "home" \in Pages
  BY DEF Pages, Entry, Layout
<1> DEFINE waiting == [s EXCEPT !.going = [to |-> p, token |-> token]]
<1>3. waiting.going = [to |-> p, token |-> token]
  BY DEF Tabs
<1> HIDE DEF waiting
<1>4. CASE p \in Layout /\ token = 0
  BY <1>1, <1>2, <1>4 DEF GoTo
<1>5. CASE p \in Entry /\ token # 0
  <2>1. GoTo(s, p, token) = Show(s, "home", token)
    BY <1>5, EntryIsUnguarded DEF GoTo
  <2>2. QED
    BY <2>1, <1>1, <1>2
<1>6. CASE p \in Guarded /\ token # 0
  <2>1. p \notin Entry
    BY <1>6, EntryIsUnguarded
  <2>2. GoTo(s, p, token) = [tab |-> waiting, stored |-> token]
    BY <2>1, <1>6 DEF GoTo, waiting
  <2>3. GoTo(s, p, token).tab = waiting
    BY <2>2
  <2>4. QED
    BY <2>3, <1>3, <1>6
<1>7. CASE ~(p \in Layout /\ token = 0) /\ ~(p \in Entry /\ token # 0)
           /\ ~(p \in Guarded /\ token # 0)
  BY <1>1, <1>7 DEF GoTo
<1>8. QED
  BY <1>4, <1>5, <1>6, <1>7

\* The answer to the question a guarded page asks.
GuardAnswer == \E a \in {"ok", "failed", "unauthorized", "refused"} : GuardAnswers(a)

\* As long as the user moves nowhere, no other answer begins a check or changes
\* the one under way.
LEMMA OthersLeaveCheck ==
  ASSUME TypeOK, tab.going # None, [Next]_vars, [~UserMoves]_vars, ~GuardAnswer
  PROVE  tab'.going \in {None, tab.going}
<1>1. /\ stored \in Carried /\ tab \in Tabs /\ Answered \in Tabs /\ 0 \in Carried
      /\ Answered.going = tab.going
      /\ owner \in Seq(Users) /\ Len(owner) \in Nat
  BY DEF TypeOK, Carried, Answered, Tabs
<1>2. "login" \in Pages \ Guarded /\ "home" \in Pages \ Guarded
  BY DEF Pages, Entry, Layout, Guarded
<1>3. SignInAgain.tab.going = None
  BY <1>1, <1>2, GoToChecks, FreshType DEF SignInAgain
<1>4. CASE UserMoves
  BY <1>4 DEF vars
<1>5. CASE Refocus
  BY <1>1, <1>5 DEF Refocus, Tabs
<1>6. ASSUME NEW a, UserAnswers(a) PROVE tab'.going \in {None, tab.going}
  <2> DEFINE told == [tab EXCEPT !.fetching = None]
             failed == [told EXCEPT !.status = "error"]
             known == [told EXCEPT !.user = owner[tab.fetching], !.status = "success"]
             sent == [failed EXCEPT !.page = "login", !.going = None]
  <2>1. known.going = tab.going /\ failed.going = tab.going /\ sent.going = None
    BY <1>1 DEF Tabs
  <2>2. tab' \in {known, SignInAgain.tab, sent, failed}
    BY <1>6 DEF UserAnswers, Becomes, Answers
  <2> HIDE DEF known, failed, sent
  <2>3. QED
    BY <2>1, <2>2, <1>3
<1>7. ASSUME NEW u \in Users, SignedIn(u) PROVE tab'.going = None
  <2>1. tab' = GoTo(Answered, "home", Len(owner')).tab /\ Len(owner') = Len(owner) + 1
        /\ Len(owner) < MaxTokens
    BY <1>1, <1>7 DEF SignedIn, Becomes, SignIn, Request
  <2>2. Len(owner') \in Carried
    BY <1>1, <2>1, SessionAssumption DEF Carried, Tokens
  <2>3. QED
    BY <2>1, <2>2, <1>1, <1>2, GoToChecks
<1>8. CASE AccountDeleted
  <2> DEFINE s == [Answered EXCEPT !.fetching = IF InLayout(tab) THEN 0 ELSE @]
  <2>1. s \in Tabs
    BY <1>1 DEF Tabs
  <2>2. tab' = GoTo(s, "login", 0).tab
    BY <1>8 DEF AccountDeleted, Becomes, DeleteAccount, Request
  <2> HIDE DEF s
  <2>3. QED
    BY <2>1, <2>2, <1>1, <1>2, GoToChecks
<1>9. ASSUME NEW a, CallAnswers(a) PROVE tab'.going \in {None, tab.going}
  <2>1. tab.call.of \in Requests
    BY <1>1, <1>9 DEF CallAnswers, Tabs
  <2>2. tab.call.of.to # tab.call.of.page => tab.call.of.to \in {"login", "home"}
    BY <2>1 DEF Requests, SignIn, SignUp, RecoverPassword, ResetPassword, SharedTrip,
                ChangePassword, ChangeProfile, DeleteAccount, Content, Request
  <2>3. \/ tab' = SignInAgain.tab
        \/ /\ tab.call.of.to # tab.call.of.page
           /\ tab' = GoTo(Answered, tab.call.of.to, stored).tab
        \/ tab' = Answered
    BY <1>9 DEF CallAnswers, Becomes
  <2>4. ASSUME NEW p \in {"login", "home"} PROVE GoTo(Answered, p, stored).tab.going = None
    BY <1>1, <1>2, GoToChecks
  <2>5. QED
    BY <2>2, <2>3, <2>4, <1>1, <1>3
<1>10. CASE Logout
  BY <1>1, <1>2, <1>10, GoToChecks DEF Logout, Becomes
<1>11. ASSUME NEW r, Ask(r) PROVE tab'.going = tab.going
  BY <1>1, <1>11 DEF Ask, Tabs
<1>12. CASE UNCHANGED tab
  BY <1>12
<1>13. QED
  BY <1>4, <1>5, <1>6, <1>7, <1>8, <1>9, <1>10, <1>11, <1>12
  DEF Next, Respond, GuardAnswer, OtherTabSignsIn, OtherTabSignsOut, Expire, vars

\* The check under way was begun with the token in storage; it rests when it
\* does not send the token's owner to another guarded page.
Asked(token) == tab.going # None /\ tab.going.token = token
Resting(token) == Asked(token) /\ (token \in DOMAIN owner => Rests(tab.going.to, owner[token]))

\* The owner of an issued token stays; there is no token 0.
LEMMA OwnerStays ==
  ASSUME TypeOK, [Next]_vars
  PROVE  /\ \A k \in DOMAIN owner : k \in DOMAIN owner' /\ owner'[k] = owner[k]
         /\ 0 \notin DOMAIN owner'
<1>1. owner' = owner \/ \E u \in Users : owner' = Append(owner, u)
  BY DEF Next, UserMoves, Load, Open, Refocus, Respond, UserAnswers, GuardAnswers, CallAnswers,
         SignedIn, AccountDeleted, Ask, Logout, OtherTabSignsIn, OtherTabSignsOut, Expire, vars
<1>2. owner \in Seq(Users)
  BY DEF TypeOK
<1>3. QED
  BY <1>1, <1>2

\* What an answered check leaves: nothing, or the check of the page it leads to,
\* which lets the token's owner rest.
LEMMA AnswerMovesOn ==
  ASSUME TypeOK, NEW token \in Carried, stored = token, GuardAnswer
  PROVE  /\ tab'.going = None \/ Asked(token)'
         /\ Asked(token) => tab'.going = None \/ Resting(token)'
         /\ Resting(token) => tab'.going = None
<1> PICK a : GuardAnswers(a)
  BY DEF GuardAnswer
<1> DEFINE p == tab.going.to
           land == IF a = "ok" THEN Landing(p, owner[tab.going.token]) ELSE "failed"
           arrived == [tab EXCEPT !.going = None]
<1>1. arrived \in Tabs /\ p \in Guarded /\ tab.going # None
  BY DEF TypeOK, Tabs, GuardAnswers
<1>2. p \in Pages /\ (land \in Pages \/ land = "failed")
  BY <1>1, LandingIsPage DEF Guarded, Pages
<1>3. /\ tab' = (IF land \in {p, "failed"} THEN Show(arrived, land, stored)
                 ELSE GoTo(arrived, land, stored)).tab
      /\ UNCHANGED <<owner, valid>>
  BY DEF GuardAnswers, Becomes
<1>4. a = "ok" => tab.going.token \in DOMAIN owner
  BY WhoAmICarriesToken DEF GuardAnswers, Answers, TypeOK
<1>5. land # "failed" => a = "ok" /\ land = Landing(p, owner[tab.going.token])
  OBVIOUS
<1> HIDE DEF land, arrived
<1>6. CASE land \in {p, "failed"}
  <2>1. tab' = Show(arrived, land, token).tab
    BY <1>3, <1>6
  <2>2. QED
    BY <2>1, <1>1, <1>2, ShowEndsCheck
<1>7. CASE land \notin {p, "failed"}
  <2>1. tab' = GoTo(arrived, land, token).tab /\ land \in Pages
    BY <1>2, <1>3, <1>7
  <2>2. tab'.going = None \/ (land \in Guarded /\ tab'.going = [to |-> land, token |-> token])
    BY <2>1, <1>1, GoToChecks
  <2>3. CASE tab'.going = None
    BY <2>3
  <2>4. CASE tab'.going # None
    <3>1. Asked(token)' /\ tab'.going.to = land /\ land \in Guarded
      BY <2>2, <2>4 DEF Asked
    <3>2. a = "ok" /\ land = Landing(p, owner[tab.going.token])
      BY <1>5, <1>7
    <3>3. Rests(land, owner[tab.going.token])
      BY <1>1, <3>1, <3>2, OneRedirect
    <3>4. Asked(token) => Resting(token)'
      BY <3>1, <3>3, <1>3 DEF Resting, Asked
    <3>5. ~Resting(token)
      BY <3>1, <3>2, <1>4, <1>7 DEF Resting, Asked, Rests
    <3>6. QED
      BY <3>1, <3>4, <3>5
  <2>5. QED
    BY <2>3, <2>4
<1>8. QED
  BY <1>6, <1>7

\* A check that is under way can be answered: what the guard of GuardAnswers
\* says, as a hypothesis like CanBeAnswered.
CheckCanBeAnswered == tab.going # None => ENABLED <<GuardAnswer>>_vars

\* Checks end once the token in storage stays the same, as it does unless some
\* tab signs in or out for ever.
CheckEnds(token) ==
  <>[](stored = token) /\ <>[][~UserMoves]_vars => (tab.going # None ~> tab.going = None)

LEMMA CheckOfTokenEnds ==
  ASSUME NEW token \in Carried
  PROVE  FairSpec /\ []CheckCanBeAnswered => CheckEnds(token)
<1> DEFINE Ended == tab.going = None
           Same == stored = token
<1>1. TypeOK /\ Issued /\ ~Ended /\ Same /\ [Next]_vars /\ [~UserMoves]_vars
        => /\ Asked(token) => Ended' \/ Asked(token)'
           /\ Resting(token) => Ended' \/ Resting(token)'
  <2> SUFFICES ASSUME TypeOK, Issued, ~Ended, Same, [Next]_vars, [~UserMoves]_vars
               PROVE  /\ Asked(token) => Ended' \/ Asked(token)'
                      /\ Resting(token) => Ended' \/ Resting(token)'
    OBVIOUS
  <2>1. CASE GuardAnswer
    BY <2>1, AnswerMovesOn DEF Resting
  <2>2. CASE ~GuardAnswer
    <3>1. tab'.going \in {None, tab.going}
      BY <2>2, OthersLeaveCheck
    <3>2. CASE token \in DOMAIN owner
      BY <3>1, <3>2, OwnerStays DEF Asked, Resting
    <3>3. CASE token = 0
      <4>1. token \notin DOMAIN owner'
        BY <3>3, OwnerStays
      <4>2. QED
        BY <3>1, <4>1 DEF Asked, Resting
    <3>4. QED
      BY <3>2, <3>3 DEF Issued
  <2>3. QED
    BY <2>1, <2>2
<1>2. TypeOK /\ ~Ended /\ Same /\ <<GuardAnswer>>_vars
        => /\ Ended' \/ Asked(token)'
           /\ Asked(token) => Ended' \/ Resting(token)'
           /\ Resting(token) => Ended'
  BY AnswerMovesOn
<1>3. CheckCanBeAnswered => Ended \/ ENABLED <<GuardAnswer>>_vars
  BY DEF CheckCanBeAnswered
<1>4. Init => Issued
  BY GoToKeepsRequest DEF Init, Issued
<1>5. TypeOK /\ Issued /\ [Next]_vars => Issued'
  BY IssuedKept
<1>6. FairSpec => WF_vars(GuardAnswer)
  BY PTL DEF FairSpec, Fairness, GuardAnswer
<1> HIDE DEF Ended, Same
<1>7. FairSpec /\ []CheckCanBeAnswered
        => (<>[]Same /\ <>[][~UserMoves]_vars => (~Ended ~> Ended))
  BY <1>1, <1>2, <1>3, <1>4, <1>5, <1>6, TypeCorrect, PTL DEF FairSpec, Spec
<1>8. QED
  BY <1>7, PTL DEF CheckEnds, Same, Ended

ChecksEndOnceSignedIn == \A token \in Carried : CheckEnds(token)

\* A user who waits ends on some page: the guards never send the tab round in a
\* circle, for any roles and rights of the users, once the token it is checked
\* with stays the same (a driver's and a dispatcher's token in turn could send
\* it to and fro between the trips and the driver's own).
THEOREM ChecksAlwaysEnd == FairSpec /\ []CheckCanBeAnswered => ChecksEndOnceSignedIn
BY CheckOfTokenEnds DEF ChecksEndOnceSignedIn
=============================================================================
