------------------------------- MODULE Session -------------------------------
(* One tab of the frontend: which page it shows, who it believes is signed in *)
(* (the "currentUser" query of hooks/useAuth.ts), and the bearer token, which *)
(* lives in localStorage and so belongs to every tab of the browser at once.  *)
(* The other tabs appear here by what they do to that token.                  *)
EXTENDS Api, Navigation, Naturals, Sequences

CONSTANTS
  Openable,   \* the pages the run opens
  MaxTokens,  \* bound: tokens the backend issues
  None

ASSUME SessionAssumption ==
  MaxTokens \in Nat /\ Openable \subseteq Pages /\ None \notin 0 .. MaxTokens

\* What a page asks of the backend on its own, and the page a success opens.
Request(page, op, to) == [page |-> page, op |-> op, to |-> to]

\* The forms of the entry pages; a form is sent once at a time, when its fields
\* pass the validation of its schema.
SignIn == Request("login", "loginAccessToken", "home")
SignUp == Request("signup", "registerUser", "login")
RecoverPassword == Request("recoverPassword", "recoverPassword", "recoverPassword")
ResetPassword == Request("resetPassword", "resetPassword", "login")

\* The page of a shared trip reads it once and shows an error as "not available".
SharedTrip == Request("shared", "plansReadSharedTripPlan", "shared")

\* The settings.
ChangePassword == Request("settings", "updatePasswordMe", "settings")
ChangeProfile == Request("settings", "updateUserMe", "settings")
DeleteAccount == Request("settings", "deleteUserMe", "login")

\* The content of the pages of the layout.
Content ==
  {Request(p, "plansListTripPlans", p) : p \in {"trips", "trip"}}
    \cup {Request(p, "plansListMyTripPlans", p) : p \in {"myTrips", "myTrip"}}
    \cup {Request(p, "listShipments", p) : p \in {"shipments", "shipment"}}
    \cup {Request(p, "listVehicles", p) :
             p \in {"fleet", "vehicle", "newVehicle", "editVehicle", "map"}}
    \cup {Request("admin", "readUsers", "admin")}

Requests ==
  {SignIn, SignUp, RecoverPassword, ResetPassword, SharedTrip,
   ChangePassword, ChangeProfile, DeleteAccount} \cup Content

VARIABLES
  stored,  \* access_token in localStorage; 0 when there is none
  owner,   \* owner of each token issued
  valid,   \* tokens the backend still accepts
  tab      \* the tab, see Tabs

vars == <<stored, owner, valid, tab>>

Tokens == 1 .. MaxTokens
Carried == Tokens \cup {0}

\* page: what is on screen ("none" while the first page loads, "failed" when a
\* page's own check failed); going: the page whose check is under way; user and
\* status: the query's data and status; fetching: the token its request
\* carries; call: the request of the page's own content.
Tabs ==
  [page : Pages \cup {"none", "failed"},
   going : [to : Guarded, token : Carried] \cup {None},
   user : Users \cup {None},
   status : {"pending", "success", "error"},
   fetching : Carried \cup {None},
   call : [of : Requests, token : Carried] \cup {None}]

\* The types of the variables.
TypeOK ==
  /\ stored \in Carried
  /\ owner \in Seq(Users) /\ Len(owner) <= MaxTokens
  /\ valid \subseteq DOMAIN owner
  /\ tab \in Tabs

-----------------------------------------------------------------------------
\* A page loaded from scratch: no query cache, no request under way.
Fresh == [page |-> "none", going |-> None, user |-> None, status |-> "pending",
          fetching |-> None, call |-> None]

InLayout(s) == s.page \in Layout \cup {"failed"}

\* A subscriber of the current user appears: the query is fetched unless a
\* fetch is under way or, on the pages outside the layout, there is no token.
Subscribe(s, token) ==
  IF s.fetching # None \/ token = 0
    THEN s
    ELSE [s EXCEPT !.fetching = token,
                   !.status = IF s.user = None THEN "pending" ELSE s.status]

\* The router shows page p (or its error) with `token` in storage: the tab and
\* the token it leaves there.  The query keeps an error next to older data, and
\* the effect of a subscriber that mounts on one signs the tab out.
Show(s, p, token) ==
  LET mounts == p \in UsesAuth \/ (p \in Observing \cup {"failed"} /\ ~InLayout(s))
      shown == [s EXCEPT !.page = p, !.going = None]
      subscribed == IF mounts THEN Subscribe(shown, token) ELSE shown
  IN IF mounts /\ subscribed.status = "error"
       THEN [tab |-> [subscribed EXCEPT !.page = "login"], stored |-> 0]
       ELSE [tab |-> subscribed, stored |-> token]

\* The router is asked for page p: the layout wants a token, the entry pages
\* want none, the guarded pages ask the backend who the user is.
GoTo(s, p, token) ==
  CASE p \in Layout /\ token = 0 -> Show(s, "login", token)
    [] p \in Entry /\ token # 0 -> Show(s, "home", token)
    [] p \in Guarded /\ token # 0 ->
         [tab |-> [s EXCEPT !.going = [to |-> p, token |-> token]], stored |-> token]
    [] OTHER -> Show(s, p, token)

Becomes(next) == tab' = next.tab /\ stored' = next.stored

\* What the backend may answer to a request that carries `token`.
Answers(secured, token) ==
  {"failed"} \cup
  (IF ~secured \/ token \in valid THEN {"ok"}
   ELSE IF token = 0 THEN {"unauthorized"}
   ELSE {"refused"})

\* handleApiError of the query and mutation caches: the token is dropped and
\* the browser loads /login.
SignInAgain == GoTo(Fresh, "login", 0)

-----------------------------------------------------------------------------
Init ==
  /\ stored = 0
  /\ owner = <<>>
  /\ valid = {}
  /\ tab = GoTo(Fresh, "login", 0).tab

\* The user enters an address, or follows a shared link.
Load(p) ==
  /\ Becomes(GoTo(Fresh, p, stored))
  /\ UNCHANGED <<owner, valid>>

\* The user follows a link of the application.
Open(p) ==
  /\ \/ InLayout(tab) /\ p \in Layout
     \/ tab.page \in Entry /\ p \in Entry \ {"resetPassword"}
  /\ Becomes(GoTo(tab, p, stored))
  /\ UNCHANGED <<owner, valid>>

\* The window gets the focus: a stale query with a subscriber in the layout is
\* fetched again, whatever has become of the token.
Refocus ==
  /\ InLayout(tab)
  /\ tab.fetching = None
  /\ tab' = [tab EXCEPT !.fetching = stored]
  /\ UNCHANGED <<stored, owner, valid>>

\* The answer to the current-user request; any error signs the tab out where a
\* subscriber sees it.
UserAnswers(a) ==
  /\ tab.fetching # None
  /\ a \in Answers(Secured("readUserMe"), tab.fetching)
  /\ LET told == [tab EXCEPT !.fetching = None]
         failed == [told EXCEPT !.status = "error"]
     IN Becomes(CASE a = "ok" -> [tab |-> [told EXCEPT !.user = owner[tab.fetching],
                                                       !.status = "success"],
                                  stored |-> stored]
                  [] a = "unauthorized" -> SignInAgain
                  [] a \in {"refused", "failed"} ->
                       IF tab.page \in Observing \cup {"failed"}
                         THEN [tab |-> [failed EXCEPT !.page = "login", !.going = None],
                               stored |-> 0]
                         ELSE [tab |-> failed, stored |-> stored])
  /\ UNCHANGED <<owner, valid>>

\* The answer to the question a guarded page asks before it shows.
GuardAnswers(a) ==
  /\ tab.going # None
  /\ a \in Answers(Secured("readUserMe"), tab.going.token)
  /\ LET p == tab.going.to
         land == IF a = "ok" THEN Landing(p, owner[tab.going.token]) ELSE "failed"
         arrived == [tab EXCEPT !.going = None]
     IN Becomes(IF land \in {p, "failed"} THEN Show(arrived, land, stored)
                ELSE GoTo(arrived, land, stored))
  /\ UNCHANGED <<owner, valid>>

\* A form is submitted, a page reads its content.
Ask(r) ==
  /\ tab.page = r.page
  /\ tab.call = None
  /\ tab' = [tab EXCEPT !.call = [of |-> r, token |-> IF Secured(r.op) THEN stored ELSE 0]]
  /\ UNCHANGED <<stored, owner, valid>>

Answered == [tab EXCEPT !.call = None]

\* Signing in stores the new token and opens the home page.
SignedIn(u) ==
  /\ tab.call # None /\ tab.call.of = SignIn
  /\ Len(owner) < MaxTokens
  /\ owner' = Append(owner, u)
  /\ valid' = valid \cup {Len(owner')}
  /\ Becomes(GoTo(Answered, SignIn.to, Len(owner')))

\* The account is deleted, and with it what its tokens were good for; the
\* sidebar's query is asked once more, without a token by then.
AccountDeleted ==
  /\ tab.call # None /\ tab.call.of = DeleteAccount
  /\ tab.call.token \in valid
  /\ valid' = {k \in valid : owner[k] # owner[tab.call.token]}
  /\ Becomes(GoTo([Answered EXCEPT !.fetching = IF InLayout(tab) THEN 0 ELSE @],
                  DeleteAccount.to, 0))
  /\ UNCHANGED owner

\* Any other answer to a page's own request: a success opens the next page
\* wherever the user is by then, an error leaves the form on screen.
CallAnswers(a) ==
  /\ tab.call # None
  /\ a \in Answers(Secured(tab.call.of.op), tab.call.token)
  /\ a = "ok" => tab.call.of \notin {SignIn, DeleteAccount}
  /\ Becomes(CASE a = "unauthorized" -> SignInAgain
               [] a = "ok" /\ tab.call.of.to # tab.call.of.page ->
                    GoTo(Answered, tab.call.of.to, stored)
               [] OTHER -> [tab |-> Answered, stored |-> stored])
  /\ UNCHANGED <<owner, valid>>

Logout ==
  /\ InLayout(tab)
  /\ tab.user # None
  /\ Becomes(GoTo(tab, "login", 0))
  /\ UNCHANGED <<owner, valid>>

\* Another tab signs in or out.
OtherTabSignsIn(u) ==
  /\ stored = 0
  /\ Len(owner) < MaxTokens
  /\ owner' = Append(owner, u)
  /\ stored' = Len(owner')
  /\ valid' = valid \cup {stored'}
  /\ UNCHANGED tab

OtherTabSignsOut ==
  /\ stored' = 0
  /\ UNCHANGED <<owner, valid, tab>>

\* A token expires, or its user is deactivated or deleted by somebody.
Expire(k) ==
  /\ k \in valid
  /\ valid' = valid \ {k}
  /\ UNCHANGED <<stored, owner, tab>>

UserMoves == \E p \in Openable : Load(p) \/ Open(p)
Respond ==
  \/ \E a \in {"ok", "failed", "unauthorized", "refused"} :
       UserAnswers(a) \/ GuardAnswers(a) \/ CallAnswers(a)
  \/ \E u \in Users : SignedIn(u)
  \/ AccountDeleted

Next ==
  \/ UserMoves
  \/ Refocus
  \/ Respond
  \/ \E r \in Requests : r.page \in Openable /\ Ask(r)
  \/ Logout
  \/ \E u \in Users : OtherTabSignsIn(u)
  \/ OtherTabSignsOut
  \/ \E k \in Tokens : Expire(k)

Spec == Init /\ [][Next]_vars

\* Requests are answered: the client waits for an answer or a network error.
Fairness ==
  /\ WF_vars(\E a \in {"ok", "failed", "unauthorized", "refused"} : UserAnswers(a))
  /\ WF_vars(\E a \in {"ok", "failed", "unauthorized", "refused"} : GuardAnswers(a))

FairSpec == Spec /\ Fairness

-----------------------------------------------------------------------------
\* A visitor of a shared trip stays on it: no answer, no other tab and no
\* expired token sends the tab to the login page or anywhere else
\* (routes/trip/$token.tsx lives outside the layout for this).
VisitorStays ==
  [][tab.page = "shared" /\ tab'.page # "shared" => \E p \in Openable : Load(p)]_vars

\* What the sidebar offers a user, the page's own check lets that user open:
\* two lists kept in two places.
MenuOpens == tab.user # None => \A p \in Menu(tab.user) : Landing(p, tab.user) = p

\* A token is dropped only when it was missing or refused, or the user signed
\* out: what the comment on the effect of useAuth says.
OnlyRefusedTokensAreDropped ==
  [][\/ stored = 0
     \/ stored' # 0
     \/ Logout \/ OtherTabSignsOut \/ AccountDeleted
     \/ \E a \in {"unauthorized", "refused"} : UserAnswers(a) \/ CallAnswers(a)]_vars

\* A tab that asks who it is with a token the backend refuses leaves the layout:
\* it does not stay behind an answer that nobody looks at.
RefusedTabsLeave ==
  \A k \in Tokens :
    (InLayout(tab) /\ tab.fetching = k /\ k \in DOMAIN owner \ valid)
      ~> (~InLayout(tab) \/ stored \in valid)

\* The checks of the guarded pages send the tab on, but not in a circle: a user
\* who waits ends on some page.
ChecksEnd == <>[][~UserMoves]_vars => (tab.going # None ~> tab.going = None)
=============================================================================
