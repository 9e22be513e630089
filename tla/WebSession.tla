----------------------------- MODULE WebSession -----------------------------
(***************************************************************************)
(* A login session of the web client (lib/api.ts, lib/auth.store.ts) and   *)
(* the rotation of its refresh token by the server (RefreshToken and       *)
(* Logout of auth_handler.go, auth.go).  The tabs of one browser share the *)
(* cookie and localStorage; each tab keeps its tokens in memory, answers a *)
(* 401 with one shared refresh, and asks the cookie when it loads.  The    *)
(* server keeps one refresh token of the account and a list of the blocked *)
(* ones.                                                                   *)
(*                                                                         *)
(* Pairs of an access and a refresh token are numbered; 0 is none.  A      *)
(* remembered login of a registered user is modelled.  A request is        *)
(* answered in one step, but for the refresh, whose steps at the server    *)
(* interleave.  A tab that logs out has no other request open, and a tab   *)
(* is loaded anew only while it waits for none.                            *)
(***************************************************************************)
EXTENDS Integers, FiniteSets

CONSTANTS
  Tab,
  Slot,      \* requests a tab may have open at once
  MaxPairs,  \* bound on token pairs
  Trouble,   \* what may happen besides, each once
  MaxTrouble \* bound on how much of it does

ASSUME SessionAssumption ==
  /\ MaxPairs \in Nat \ {0} /\ MaxTrouble \in Nat
  /\ Trouble \subseteq {"down", "lost", "dberror", "login", "elsewhere", "password"}

VARIABLES
  stored,   \* users.refresh_token
  blocked,  \* blocked_refresh_tokens
  revoked,  \* access tokens the server has revoked
  expired,  \* access tokens that have run out
  issued,   \* the last pair
  parent,   \* the refresh token a pair was issued for
  era,      \* the password changes before the login a pair goes back to
  changes,  \* password changes
  cookie,   \* the refresh token in the browser's cookie
  local,    \* the access token in localStorage
  tokens,   \* of each tab, in memory
  ready,    \* initialized
  call,     \* the API requests of each tab
  refresh,  \* requests to refresh: refreshPromise and initialize
  trouble

account == <<stored, blocked, revoked, issued, parent, era, changes>>
browser == <<cookie, local, tokens, ready>>
vars == <<account, expired, browser, call, refresh, trouble>>

Pair == 1..MaxPairs
Maybe == 0..MaxPairs
Way == {"call", "init"}
Request == Tab \X Way

Tokens == [access : Maybe, refresh : Maybe]
NoTokens == [access |-> 0, refresh |-> 0]

(* Mutant: the session is kept without its refresh token. *)
AccessOnly(n) == [access |-> n]

(* The tokens a login or a refresh returns. *)
Both(n) == [access |-> n, refresh |-> n]

(* A request has been sent with an access token, or waits for the refresh; *)
(* a logout carries a refresh token in its body.                           *)
Call == [at : {"idle", "sent", "waiting"}, body : Maybe, access : Maybe, again : BOOLEAN]
NoCall == [at |-> "idle", body |-> 0, access |-> 0, again |-> FALSE]

(* "sent", then at the server, then answered with a pair or refused. *)
Refresh == [at : {"idle", "sent", "valid", "blocked", "ok", "no"},
            old : Maybe, new : Maybe, was : BOOLEAN]
NoRefresh == [at |-> "idle", old |-> 0, new |-> 0, was |-> FALSE]

TypeOK ==
  /\ stored \in Maybe /\ issued \in Maybe /\ stored <= issued
  /\ blocked \subseteq 1..issued /\ revoked \subseteq 1..issued /\ expired \subseteq 1..issued
  /\ parent \in [Pair -> Maybe] /\ era \in [Pair -> Nat] /\ changes \in Nat
  /\ cookie \in 0..issued /\ local \in 0..issued
  /\ tokens \in [Tab -> Tokens] /\ ready \in [Tab -> BOOLEAN]
  /\ call \in [Tab -> [Slot -> Call]]
  /\ refresh \in [Request -> Refresh]
  /\ trouble \subseteq Trouble

(* The account is signed in in this browser; its tabs are not loaded yet. *)
Init ==
  /\ stored = 1 /\ blocked = {} /\ revoked = {} /\ expired = {} /\ issued = 1
  /\ parent = [n \in Pair |-> 0] /\ era = [n \in Pair |-> 0] /\ changes = 0
  /\ cookie = 1 /\ local = 1
  /\ tokens = [t \in Tab |-> NoTokens] /\ ready = [t \in Tab |-> FALSE]
  /\ call = [t \in Tab |-> [i \in Slot |-> NoCall]]
  /\ refresh = [r \in Request |-> NoRefresh]
  /\ trouble = {}

Happens(h) ==
  /\ h \in Trouble \ trouble /\ Cardinality(trouble) < MaxTrouble
  /\ trouble' = trouble \union {h}

-----------------------------------------------------------------------------
(* The account at the server *)

(* GenerateTokenPair; UpdateRefreshToken stores it. *)
Issue(p, e) ==
  /\ issued < MaxPairs /\ issued' = issued + 1
  /\ parent' = [parent EXCEPT ![issued'] = p]
  /\ era' = [era EXCEPT ![issued'] = e]
  /\ stored' = issued'

(* ValidateRefreshToken: not blocked, and the one that is stored. *)
Accepts(n) == n # 0 /\ n \notin blocked /\ n = stored

Validate(r) ==
  /\ refresh[r].at = "sent"
  /\ refresh' = [refresh EXCEPT ![r].at = IF Accepts(refresh[r].old) THEN "valid" ELSE "no"]
  /\ UNCHANGED <<account, expired, browser, call, trouble>>

(* RotateRefreshToken, first half: the old token is blocked. *)
Block(r) ==
  /\ refresh[r].at = "valid"
  /\ blocked' = blocked \union {refresh[r].old}
  /\ refresh' = [refresh EXCEPT ![r].at = "blocked"]
  /\ UNCHANGED <<stored, revoked, issued, parent, era, changes, expired, browser, call,
                 trouble>>

(* Mutant: the new token is stored whatever has become of the old. *)
SwapsAlways(n) == TRUE

(* UpdateRefreshTokenAtomic *)
Swaps(n) == stored = n

(* Second half: the new token replaces the old unless that has changed.    *)
Swap(r) ==
  LET old == refresh[r].old IN
  /\ refresh[r].at = "blocked"
  /\ IF Swaps(old)
     THEN /\ Issue(old, era[old])
          /\ refresh' = [refresh EXCEPT ![r].at = "ok", ![r].new = issued']
     ELSE /\ refresh' = [refresh EXCEPT ![r].at = "no"]
          /\ UNCHANGED <<stored, issued, parent, era>>
  /\ UNCHANGED <<blocked, revoked, changes, expired, browser, call, trouble>>

(* The database refuses the second half, the request never arrives, or its *)
(* answer is lost.                                                         *)
RefreshBreaks(r) ==
  /\ \/ refresh[r].at = "blocked" /\ Happens("dberror")
     \/ refresh[r].at = "sent" /\ Happens("down")
     \/ refresh[r].at = "ok" /\ Happens("lost")
  /\ refresh' = [refresh EXCEPT ![r].at = "no"]
  /\ UNCHANGED <<account, expired, browser, call>>

(* The account signs in on another device. *)
LoginElsewhere ==
  /\ Happens("elsewhere")
  /\ Issue(0, changes)
  /\ UNCHANGED <<blocked, revoked, changes, expired, browser, call, refresh>>

(* UpdatePassword clears the stored token. *)
ChangePassword ==
  /\ Happens("password")
  /\ stored' = 0 /\ changes' = changes + 1
  /\ UNCHANGED <<blocked, revoked, issued, parent, era, expired, browser, call, refresh>>

Expire(n) ==
  /\ n \notin expired /\ n <= issued
  /\ expired' = expired \union {n}
  /\ UNCHANGED <<account, browser, call, refresh, trouble>>

(* ValidateToken *)
Valid(a) == a \notin expired \union revoked

-----------------------------------------------------------------------------
(* The tabs *)

Asks(was) == [NoRefresh EXCEPT !.at = "sent", !.old = cookie, !.was = was]

(* setTokens, remembered: memory and localStorage. *)
SetTokens(t, n) ==
  /\ tokens' = [tokens EXCEPT ![t] = Both(n)]
  /\ local' = n

(* clear *)
Clear(t) ==
  /\ tokens' = [tokens EXCEPT ![t] = NoTokens]
  /\ local' = 0

(* A login in a tab that shows the login page. *)
Login(t) ==
  /\ ready[t] /\ tokens[t] = NoTokens /\ refresh[<<t, "init">>].at = "idle"
  /\ Happens("login")
  /\ Issue(0, changes)
  /\ cookie' = issued' /\ SetTokens(t, issued')
  /\ UNCHANGED <<blocked, revoked, changes, expired, ready, call, refresh>>

(* A page load: initialize asks the cookie and remembers whether there was *)
(* a session in localStorage.                                              *)
Load(t) ==
  /\ \A w \in Way : refresh[<<t, w>>].at = "idle"
  /\ tokens' = [tokens EXCEPT ![t] = NoTokens]
  /\ ready' = [ready EXCEPT ![t] = FALSE]
  /\ call' = [call EXCEPT ![t] = [i \in Slot |-> NoCall]]
  /\ refresh' = [refresh EXCEPT ![<<t, "init">>] = Asks(local # 0)]
  /\ UNCHANGED <<account, expired, cookie, local, trouble>>

(* Mutant: the new cookie is not set. *)
CookieKept(r) == cookie

(* setAuthCookies *)
CookieSet(r) == refresh[r].new

(* initialize has an answer: a new pair, or else the access token of       *)
(* localStorage if there was a session and it is still good.               *)
InitEnds(t) ==
  LET r == <<t, "init">> IN
  /\ refresh[r].at \in {"ok", "no"}
  /\ refresh' = [refresh EXCEPT ![r] = NoRefresh]
  /\ ready' = [ready EXCEPT ![t] = TRUE]
  /\ IF refresh[r].at = "ok"
     THEN cookie' = CookieSet(r) /\ SetTokens(t, refresh[r].new)
     ELSE /\ UNCHANGED cookie
          /\ IF refresh[r].was /\ local # 0 /\ Valid(local)
             THEN /\ tokens' = [tokens EXCEPT ![t] = [access |-> local, refresh |-> 0]]
                  /\ UNCHANGED local
             ELSE Clear(t)
  /\ UNCHANGED <<account, expired, call, trouble>>

LoggingOut(t) == \E i \in Slot : call[t][i].body # 0

(* request *)
Get(t, i) ==
  /\ tokens[t].access # 0 /\ call[t][i].at = "idle" /\ ~LoggingOut(t)
  /\ call' = [call EXCEPT ![t][i] =
       [at |-> "sent", body |-> 0, access |-> tokens[t].access, again |-> FALSE]]
  /\ UNCHANGED <<account, expired, browser, refresh, trouble>>

(* handleLogout posts the tab's refresh token. *)
Logout(t, i) ==
  /\ tokens[t].refresh # 0 /\ \A j \in Slot : call[t][j].at = "idle"
  /\ call' = [call EXCEPT ![t][i] =
       [at |-> "sent", body |-> tokens[t].refresh, access |-> tokens[t].access,
        again |-> FALSE]]
  /\ UNCHANGED <<account, expired, browser, refresh, trouble>>

(* The end of handleLogout: the tab forgets the session and goes to the    *)
(* login page, which asks the cookie c again.                              *)
LeavesTo(t, c) ==
  /\ Clear(t)
  /\ ready' = [ready EXCEPT ![t] = FALSE]
  /\ cookie' = c
  /\ refresh' = [refresh EXCEPT ![<<t, "init">>] = [NoRefresh EXCEPT !.at = "sent", !.old = c]]

(* With no refresh token in memory the server is not told. *)
LogoutLocal(t) ==
  /\ tokens[t].access # 0 /\ tokens[t].refresh = 0
  /\ \A j \in Slot : call[t][j].at = "idle"
  /\ LeavesTo(t, cookie)
  /\ UNCHANGED <<account, expired, call, trouble>>

(* A request is answered as asked. *)
GetAnswered(t, i) ==
  LET c == call[t][i] IN
  /\ c.at = "sent" /\ c.body = 0 /\ Valid(c.access)
  /\ call' = [call EXCEPT ![t][i] = NoCall]
  /\ UNCHANGED <<account, expired, browser, refresh, trouble>>

(* Logout: a token that is blocked already is an error, and then the       *)
(* access token is not revoked; the cookie is cleared in any case.         *)
LogoutAnswered(t, i) ==
  LET c == call[t][i] IN
  /\ c.at = "sent" /\ c.body # 0 /\ Valid(c.access)
  /\ blocked' = blocked \union {c.body}
  /\ revoked' = IF c.body \in blocked THEN revoked ELSE revoked \union {c.access}
  /\ call' = [call EXCEPT ![t][i] = NoCall]
  /\ LeavesTo(t, 0)
  /\ UNCHANGED <<stored, issued, parent, era, changes, expired, trouble>>

(* The logout does not reach the server. *)
LogoutFails(t, i) ==
  LET c == call[t][i] IN
  /\ c.body # 0
  /\ \/ c.at = "sent" /\ Happens("down")
     \/ c.at = "sent" /\ ~Valid(c.access) /\ c.again /\ UNCHANGED trouble
  /\ call' = [call EXCEPT ![t][i] = NoCall]
  /\ LeavesTo(t, cookie)
  /\ UNCHANGED <<account, expired>>

(* 401: the tab's refresh is joined or begun; the second time the request  *)
(* fails.  (A pair must be left for the refresh: MaxPairs.)                *)
Unauthorized(t, i) ==
  LET c == call[t][i] IN
  /\ c.at = "sent" /\ ~Valid(c.access)
  /\ IF c.again
     THEN /\ c.body = 0
          /\ call' = [call EXCEPT ![t][i] = NoCall]
          /\ UNCHANGED refresh
     ELSE /\ refresh[<<t, "call">>].at = "idle" => issued < MaxPairs
          /\ call' = [call EXCEPT ![t][i].at = "waiting"]
          /\ refresh' = IF refresh[<<t, "call">>].at = "idle"
                        THEN [refresh EXCEPT ![<<t, "call">>] = Asks(FALSE)] ELSE refresh
  /\ UNCHANGED <<account, expired, browser, trouble>>

Waiting(t) == {i \in Slot : call[t][i].at = "waiting"}

(* doRefresh succeeds: the requests that wait are sent again. *)
Refreshed(t) ==
  LET r == <<t, "call">> IN
  /\ refresh[r].at = "ok"
  /\ cookie' = CookieSet(r) /\ SetTokens(t, refresh[r].new)
  /\ call' = [call EXCEPT ![t] = [i \in Slot |->
       IF i \in Waiting(t)
       THEN [@[i] EXCEPT !.at = "sent", !.access = refresh[r].new, !.again = TRUE]
       ELSE @[i]]]
  /\ refresh' = [refresh EXCEPT ![r] = NoRefresh]
  /\ UNCHANGED <<account, expired, ready, trouble>>

(* Mutant: a request whose refresh failed is left waiting. *)
DroppedBySent(t) == [i \in Slot |-> call[t][i]]

(* redirectToAuth loads the page anew, which drops its requests. *)
Dropped(t) == [i \in Slot |-> NoCall]

(* doRefresh fails: the session is cleared and the page loaded anew. *)
Redirect(t) ==
  LET r == <<t, "call">> IN
  /\ refresh[r].at = "no"
  /\ Clear(t)
  /\ ready' = [ready EXCEPT ![t] = FALSE]
  /\ call' = [call EXCEPT ![t] = Dropped(t)]
  /\ refresh' = [refresh EXCEPT ![r] = NoRefresh, ![<<t, "init">>] = Asks(FALSE)]
  /\ UNCHANGED <<account, expired, cookie, trouble>>

Next ==
  \/ \E r \in Request : Validate(r) \/ Block(r) \/ Swap(r) \/ RefreshBreaks(r)
  \/ \E t \in Tab :
       \/ Login(t) \/ Load(t) \/ InitEnds(t) \/ LogoutLocal(t)
       \/ Refreshed(t) \/ Redirect(t)
       \/ \E i \in Slot :
            \/ Get(t, i) \/ Logout(t, i) \/ GetAnswered(t, i) \/ LogoutAnswered(t, i)
            \/ LogoutFails(t, i) \/ Unauthorized(t, i)
  \/ \E n \in Pair : Expire(n)
  \/ LoginElsewhere \/ ChangePassword

Spec == Init /\ [][Next]_vars

(* Requests are answered and their callbacks run. *)
Fairness ==
  /\ \A r \in Request : WF_vars(Validate(r) \/ Block(r) \/ Swap(r) \/ RefreshBreaks(r))
  /\ \A t \in Tab : WF_vars(InitEnds(t)) /\ WF_vars(Refreshed(t) \/ Redirect(t))
  /\ \A t \in Tab, i \in Slot :
       WF_vars(GetAnswered(t, i) \/ LogoutAnswered(t, i) \/ LogoutFails(t, i)
               \/ Unauthorized(t, i))

LiveSpec == Spec /\ Fairness

-----------------------------------------------------------------------------
(* Properties *)

(* No refresh token is exchanged for two pairs, whichever tabs present it  *)
(* at the same time (RotateRefreshToken).                                  *)
RedeemedOnce == \A m, n \in 1..issued : m # n /\ parent[m] = parent[n] => parent[m] = 0

(* Once the password is changed no refresh, not even one under way, gives  *)
(* an older login a token that counts (UpdatePassword and the swap).       *)
NoRevival == stored # 0 => era[stored] = changes

Quiet == \A r \in Request : refresh[r].at = "idle"

(* As long as nothing goes wrong the browser's cookie keeps up with the    *)
(* rotation, however the tabs' refreshes and logouts interleave: a cookie  *)
(* that is there can be redeemed.                                          *)
InStep == Quiet /\ trouble = {} /\ cookie # 0 => Accepts(cookie)

(* Every request comes to an end: it is answered, fails or goes down with  *)
(* its page (refreshPromise).                                              *)
CallsSettle == \A t \in Tab, i \in Slot : call[t][i].at = "waiting" ~> call[t][i].at # "waiting"

(* What the documentation says of a logout: the current refresh token is   *)
(* blocked.                                                                *)
LogoutBlocks ==
  [][(\E t \in Tab, i \in Slot : LogoutAnswered(t, i)) => stored = 0 \/ stored \in blocked']_vars
-----------------------------------------------------------------------------
(* The inductive invariant *)

(* Tokens in the browser have been issued. *)
BrowserInv ==
  /\ \A t \in Tab :
       /\ tokens[t].access <= issued /\ tokens[t].refresh <= issued
       /\ tokens[t].refresh # 0 => tokens[t].access # 0
  /\ \A t \in Tab, i \in Slot :
       /\ call[t][i].access <= issued /\ call[t][i].body <= issued
       /\ call[t][i].at # "idle" => call[t][i].access # 0

RefreshInv ==
  \A r \in Request :
    /\ refresh[r].old <= issued /\ refresh[r].new <= issued
    /\ refresh[r].at \in {"valid", "blocked"} => refresh[r].old # 0
    /\ refresh[r].at = "ok" => refresh[r].new # 0

(* The stored token has not been exchanged yet. *)
FamilyInv ==
  \A n \in 1..issued : parent[n] < n /\ (parent[n] # 0 => parent[n] # stored)

(* A tab refreshes on behalf of a request that waits, or loads; a tab that *)
(* logs out does nothing else.                                             *)
TabInv(t) ==
  /\ refresh[<<t, "call">>].at # "idle" => Waiting(t) # {}
  /\ refresh[<<t, "init">>].at # "idle" =>
       tokens[t] = NoTokens /\ \A i \in Slot : call[t][i].at = "idle"
  /\ \A i, j \in Slot : call[t][i].body # 0 /\ i # j => call[t][j].at = "idle"
  /\ \A i \in Slot : call[t][i].at = "idle" => call[t][i].body = 0

(* While an answer with the stored token is on its way to one tab, nobody  *)
(* else knows that token; otherwise the cookie is the stored token.        *)
OnTheWay(r) ==
  /\ refresh[r].new = stored /\ stored \notin blocked /\ cookie # stored
  /\ \A q \in Request : refresh[q].old # stored /\ (refresh[q].at = "ok" => q = r)
  /\ \A t \in Tab : tokens[t].refresh # stored
  /\ \A t \in Tab, i \in Slot : call[t][i].body # stored

CookieInv ==
  trouble = {} =>
    /\ \A r \in Request : refresh[r].at = "ok" => OnTheWay(r)
    /\ (\A r \in Request : refresh[r].at # "ok") => cookie \in {0, stored}
    /\ stored \in blocked =>
         cookie = 0 \/ \E r \in Request : refresh[r].at = "blocked" /\ refresh[r].old = stored

SessionInv ==
  /\ TypeOK /\ BrowserInv /\ RefreshInv
  /\ FamilyInv /\ RedeemedOnce /\ NoRevival
  /\ \A t \in Tab : TabInv(t)
  /\ CookieInv
=============================================================================
