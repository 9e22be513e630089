-------------------------- MODULE WebSessionProofs --------------------------
(***************************************************************************)
(* Proofs about WebSession, for any number of tabs, requests and pairs and *)
(* whatever goes wrong.                                                    *)
(***************************************************************************)
EXTENDS WebSession, TLAPS

-----------------------------------------------------------------------------
(* Types and the range of tokens *)

(* The refresh on behalf of a tab's calls and that of its loading. *)
LEMMA Requests ==
  ASSUME NEW t \in Tab
  PROVE  /\ <<t, "call">> \in Request /\ <<t, "init">> \in Request
         /\ <<t, "call">> # <<t, "init">>
BY DEF Request, Way

(* No pair is a value a token may have. *)
LEMMA Zero == 0 \in Maybe
BY SessionAssumption DEF Maybe

(* What tabs and requests keep, as it is built by the actions. *)
LEMMA Pieces ==
  /\ NoTokens \in Tokens /\ NoCall \in Call /\ NoRefresh \in Refresh
  /\ \A n \in Maybe : Both(n) \in Tokens /\ [access |-> n, refresh |-> 0] \in Tokens
  /\ \A n \in Maybe : [NoRefresh EXCEPT !.at = "sent", !.old = n] \in Refresh
  /\ \A n \in Maybe, b \in BOOLEAN :
       [NoRefresh EXCEPT !.at = "sent", !.old = n, !.was = b] \in Refresh
  /\ \A m, n \in Maybe : [at |-> "sent", body |-> m, access |-> n, again |-> FALSE] \in Call
<1>0. 0 \in Maybe
  BY Zero
<1>1. NoTokens \in Tokens
  BY <1>0 DEF NoTokens, Tokens
<1>2. NoCall \in Call
  BY <1>0 DEF NoCall, Call
<1>3. NoRefresh \in Refresh
  BY <1>0 DEF NoRefresh, Refresh
<1>4. \A n \in Maybe : Both(n) \in Tokens /\ [access |-> n, refresh |-> 0] \in Tokens
  BY <1>0 DEF Both, Tokens
<1>5. \A n \in Maybe : [NoRefresh EXCEPT !.at = "sent", !.old = n] \in Refresh
  BY <1>0 DEF NoRefresh, Refresh
<1>6. \A n \in Maybe, b \in BOOLEAN :
       [NoRefresh EXCEPT !.at = "sent", !.old = n, !.was = b] \in Refresh
  BY <1>0 DEF NoRefresh, Refresh
<1>7. \A m, n \in Maybe : [at |-> "sent", body |-> m, access |-> n, again |-> FALSE] \in Call
  BY DEF Call
<1>8. QED
  BY <1>1, <1>2, <1>3, <1>4, <1>5, <1>6, <1>7

(* What is typed as a pair is a number, and none is beyond the last issued. *)
LEMMA Numbers ==
  ASSUME TypeOK
  PROVE  /\ issued \in Nat /\ MaxPairs \in Nat
         /\ \A n : n \in 0..issued => n \in Maybe /\ n \in Nat /\ n <= issued
         /\ \A n \in Maybe : n \in Nat /\ (n <= issued => n \in 0..issued)
         /\ \A n \in Maybe \ {0} : n \in Pair
BY SessionAssumption DEF TypeOK, Maybe, Pair

(* A new pair. *)
LEMMA IssueTyped ==
  ASSUME TypeOK, NEW p \in Maybe, NEW e \in Nat, Issue(p, e)
  PROVE  /\ issued' = issued + 1 /\ issued' \in Pair /\ issued' \in Maybe /\ stored' = issued'
         /\ stored' \in Maybe /\ stored' <= issued'
         /\ parent' \in [Pair -> Maybe] /\ era' \in [Pair -> Nat]
         /\ \A S : S \subseteq 1..issued => S \subseteq 1..issued'
         /\ \A n : n \in 0..issued => n \in 0..issued'
<1>1. issued' = issued + 1 /\ issued' \in Pair /\ issued' \in Maybe /\ issued \in Nat
  BY SessionAssumption DEF TypeOK, Issue, Maybe, Pair
<1>2. parent' \in [Pair -> Maybe]
  BY <1>1 DEF TypeOK, Issue
<1>3. era' \in [Pair -> Nat]
  BY <1>1 DEF TypeOK, Issue
<1>4. \A n : n \in 1..issued => n \in 1..issued'
  BY <1>1
<1>5. \A n : n \in 0..issued => n \in 0..issued'
  BY <1>1
<1>6. stored' = issued' /\ stored' <= issued'
  BY <1>1 DEF Issue
<1>7. QED
  BY <1>1, <1>2, <1>3, <1>4, <1>5, <1>6

(* Before any page is loaded everything has its type and no pair is unknown. *)
LEMMA InitTyped == Init => TypeOK /\ BrowserInv /\ RefreshInv
<1> SUFFICES ASSUME Init PROVE TypeOK /\ BrowserInv /\ RefreshInv
  OBVIOUS
<1> USE DEF Init
<1>1. 1 \in Maybe /\ 0 \in Maybe
  BY SessionAssumption DEF Maybe
<1>2. TypeOK
  <2>1. /\ {} \subseteq 1..issued /\ cookie \in 0..issued /\ local \in 0..issued /\ stored <= issued
        /\ changes \in Nat
    OBVIOUS
  <2>2. parent \in [Pair -> Maybe] /\ era \in [Pair -> Nat]
    BY <1>1
  <2>3. tokens \in [Tab -> Tokens] /\ ready \in [Tab -> BOOLEAN]
    BY Pieces
  <2>4. call \in [Tab -> [Slot -> Call]]
    BY Pieces
  <2>5. refresh \in [Request -> Refresh]
    BY Pieces
  <2>6. QED
    BY <1>1, <2>1, <2>2, <2>3, <2>4, <2>5 DEF TypeOK
<1>3. BrowserInv
  BY DEF BrowserInv, NoTokens, NoCall
<1>4. RefreshInv
  BY DEF RefreshInv, NoRefresh
<1>5. QED
  BY <1>2, <1>3, <1>4

(* The steps of a refresh at the server keep the types. *)
LEMMA ServerTyped ==
  ASSUME TypeOK, RefreshInv, NEW r \in Request,
         Validate(r) \/ Block(r) \/ Swap(r) \/ RefreshBreaks(r)
  PROVE  TypeOK'
<1>1. CASE Validate(r)
  BY <1>1 DEF Validate, TypeOK, Refresh, account, browser
<1>2. CASE Block(r)
  <2>1. refresh[r].old \in 1..issued
    BY <1>2 DEF Block, TypeOK, Refresh, RefreshInv, Maybe
  <2>2. refresh' \in [Request -> Refresh]
    BY <1>2 DEF Block, TypeOK, Refresh
  <2>3. QED
    BY <1>2, <2>1, <2>2 DEF Block, TypeOK, browser
<1>3. CASE Swap(r)
  <2>1. CASE Swaps(refresh[r].old)
    <3>1. refresh[r].old \in Pair /\ refresh[r].old \in Maybe
      BY <1>3, Numbers DEF Swap, TypeOK, Refresh, RefreshInv
    <3>2. era[refresh[r].old] \in Nat /\ Issue(refresh[r].old, era[refresh[r].old])
      BY <1>3, <2>1, <3>1 DEF Swap, TypeOK
    <3>3. refresh' = [refresh EXCEPT ![r] = [@ EXCEPT !.at = "ok", !.new = issued']]
      BY <1>3, <2>1 DEF Swap
    <3>4. [refresh[r] EXCEPT !.at = "ok", !.new = issued'] \in Refresh
      BY <3>1, <3>2, IssueTyped DEF TypeOK, Refresh
    <3>5. refresh' \in [Request -> Refresh]
      BY <3>3, <3>4 DEF TypeOK
    <3>6. QED
      BY <1>3, <3>1, <3>2, <3>5, IssueTyped DEF Swap, TypeOK, browser
  <2>2. CASE ~Swaps(refresh[r].old)
    <3>1. refresh' = [refresh EXCEPT ![r].at = "no"] /\ UNCHANGED <<stored, issued, parent, era>>
      BY <1>3, <2>2 DEF Swap
    <3>2. refresh' \in [Request -> Refresh]
      BY <3>1 DEF TypeOK, Refresh
    <3>3. QED
      BY <1>3, <3>1, <3>2 DEF Swap, TypeOK, browser
  <2>3. QED
    BY <2>1, <2>2
<1>4. CASE RefreshBreaks(r)
  <2>1. refresh' = [refresh EXCEPT ![r].at = "no"] /\ trouble' \subseteq Trouble
    BY <1>4 DEF RefreshBreaks, Happens, TypeOK
  <2>2. refresh' \in [Request -> Refresh]
    BY <2>1 DEF TypeOK, Refresh
  <2>3. QED
    BY <1>4, <2>1, <2>2 DEF RefreshBreaks, TypeOK, account, browser
<1>5. QED
  BY <1>1, <1>2, <1>3, <1>4

(* Those of the account and of the clock keep them. *)
LEMMA AccountTyped ==
  ASSUME TypeOK,
         LoginElsewhere \/ ChangePassword \/ (\E n \in Pair : Expire(n)) \/ UNCHANGED vars
  PROVE  TypeOK'
<1>1. CASE LoginElsewhere
  <2>1. Issue(0, changes) /\ changes \in Nat /\ trouble' \subseteq Trouble
    BY <1>1 DEF LoginElsewhere, Happens, TypeOK
  <2>2. QED
    BY <1>1, <2>1, IssueTyped, Zero DEF LoginElsewhere, TypeOK, browser
<1>2. CASE ChangePassword
  <2>1. changes' \in Nat /\ trouble' \subseteq Trouble
    BY <1>2 DEF ChangePassword, Happens, TypeOK
  <2>0. issued \in Nat /\ issued' = issued /\ stored' = 0 /\ 0 \in Maybe
    BY <1>2, Zero, Numbers DEF ChangePassword
  <2>2. stored' \in Maybe /\ stored' <= issued'
    BY <2>0
  <2>3. QED
    BY <1>2, <2>1, <2>2 DEF ChangePassword, TypeOK, browser
<1>3. ASSUME NEW n \in Pair, Expire(n) PROVE TypeOK'
  <2>1. n \in 1..issued
    BY <1>3, Numbers DEF Expire, Pair
  <2>2. QED
    BY <1>3, <2>1 DEF Expire, TypeOK, account, browser
<1>4. CASE UNCHANGED vars
  BY <1>4 DEF vars, TypeOK, account, browser
<1>5. QED
  BY <1>1, <1>2, <1>3, <1>4

(* What a tab may read has been issued. *)
LEMMA Read ==
  ASSUME TypeOK, BrowserInv, RefreshInv, NEW t \in Tab
  PROVE  /\ tokens[t] \in Tokens /\ refresh[<<t, "call">>] \in Refresh /\ refresh[<<t, "init">>] \in Refresh
         /\ tokens[t].access \in 0..issued /\ tokens[t].refresh \in 0..issued
         /\ refresh[<<t, "init">>].new \in 0..issued /\ refresh[<<t, "call">>].new \in 0..issued
         /\ \A i \in Slot : /\ call[t][i] \in Call
                             /\ call[t][i].access \in 0..issued /\ call[t][i].body \in 0..issued
<1>1. tokens[t] \in Tokens /\ refresh[<<t, "call">>] \in Refresh /\ refresh[<<t, "init">>] \in Refresh
  BY Requests DEF TypeOK
<1>2. \A i \in Slot : call[t][i] \in Call
  BY DEF TypeOK
<1>3. /\ tokens[t].access \in Maybe /\ tokens[t].refresh \in Maybe
      /\ tokens[t].access <= issued /\ tokens[t].refresh <= issued
  BY <1>1 DEF Tokens, BrowserInv
<1>4. /\ refresh[<<t, "init">>].new \in Maybe /\ refresh[<<t, "call">>].new \in Maybe
      /\ refresh[<<t, "init">>].new <= issued /\ refresh[<<t, "call">>].new <= issued
  BY <1>1, Requests DEF Refresh, RefreshInv
<1>5. \A i \in Slot : /\ call[t][i].access \in Maybe /\ call[t][i].body \in Maybe
                       /\ call[t][i].access <= issued /\ call[t][i].body <= issued
  BY <1>2 DEF Call, BrowserInv
<1>6. QED
  BY <1>1, <1>2, <1>3, <1>4, <1>5, Numbers

(* What a tab sets is of its type. *)
LEMMA Written ==
  ASSUME TypeOK, NEW t \in Tab
  PROVE  /\ \A n \in Maybe : SetTokens(t, n) => tokens' \in [Tab -> Tokens] /\ local' = n
         /\ Clear(t) => tokens' \in [Tab -> Tokens] /\ local' = 0
         /\ \A c \in Maybe : LeavesTo(t, c) =>
              /\ refresh' \in [Request -> Refresh] /\ ready' \in [Tab -> BOOLEAN]
              /\ tokens' \in [Tab -> Tokens] /\ local' = 0 /\ cookie' = c
         /\ Asks(FALSE) \in Refresh /\ Asks(local # 0) \in Refresh
<1>1. ASSUME NEW n \in Maybe, SetTokens(t, n) PROVE tokens' \in [Tab -> Tokens] /\ local' = n
  BY <1>1, Pieces DEF SetTokens, TypeOK
<1>2. ASSUME Clear(t) PROVE tokens' \in [Tab -> Tokens] /\ local' = 0
  BY <1>2, Pieces DEF Clear, TypeOK
<1>3. ASSUME NEW c \in Maybe, LeavesTo(t, c)
      PROVE  /\ refresh' \in [Request -> Refresh] /\ ready' \in [Tab -> BOOLEAN]
             /\ tokens' \in [Tab -> Tokens] /\ local' = 0 /\ cookie' = c
  <2>1. refresh' \in [Request -> Refresh]
    BY <1>3, Pieces, Requests DEF LeavesTo, TypeOK
  <2>2. QED
    BY <1>2, <1>3, <2>1 DEF LeavesTo, TypeOK
<1>4. Asks(FALSE) \in Refresh /\ Asks(local # 0) \in Refresh
  BY Pieces, Numbers DEF Asks, TypeOK
<1>5. QED
  BY <1>1, <1>2, <1>3, <1>4

(* A tab's loading, its refreshes and a login in it keep the types. *)
LEMMA TabTyped ==
  ASSUME TypeOK, BrowserInv, RefreshInv, NEW t \in Tab,
         Login(t) \/ Load(t) \/ InitEnds(t) \/ LogoutLocal(t) \/ Refreshed(t) \/ Redirect(t)
  PROVE  TypeOK'
<1>0. 0 \in 0..issued
  BY Numbers
<1>1. CASE Login(t)
  <2>1. Issue(0, changes) /\ changes \in Nat /\ trouble' \subseteq Trouble
    BY <1>1 DEF Login, Happens, TypeOK
  <2>2. /\ issued' \in Maybe /\ issued' \in 0..issued' /\ cookie' = issued'
        /\ tokens' \in [Tab -> Tokens] /\ local' = issued'
    <3>1. issued' \in Maybe /\ cookie' = issued' /\ SetTokens(t, issued')
      BY <1>1, <2>1, IssueTyped, Zero DEF Login
    <3>2. [access |-> issued', refresh |-> issued'] \in Tokens /\ issued' \in Nat
      BY <3>1, SessionAssumption DEF Maybe, Tokens
    <3>3. issued' \in 0..issued'
      BY <3>2
    <3>4. tokens' \in [Tab -> Tokens] /\ local' = issued'
      BY <3>1, <3>2 DEF SetTokens, Both, TypeOK
    <3>5. QED
      BY <3>1, <3>3, <3>4
  <2>3. QED
    BY <1>1, <2>1, <2>2, IssueTyped, Zero DEF Login, TypeOK
<1>2. CASE Load(t)
  <2>1. refresh' \in [Request -> Refresh]
    BY <1>2, Requests, Written DEF Load, TypeOK
  <2>2. /\ tokens' \in [Tab -> Tokens] /\ ready' \in [Tab -> BOOLEAN]
        /\ call' \in [Tab -> [Slot -> Call]]
    BY <1>2, Pieces DEF Load, TypeOK
  <2>3. QED
    BY <1>2, <2>1, <2>2 DEF Load, TypeOK, account
<1>3. CASE InitEnds(t)
  <2>1. refresh' \in [Request -> Refresh] /\ ready' \in [Tab -> BOOLEAN]
    BY <1>3, Pieces, Requests DEF InitEnds, TypeOK
  <2>2. refresh[<<t, "init">>].new \in 0..issued /\ refresh[<<t, "init">>].new \in Maybe
    BY Read, Numbers
  <2>3. tokens' \in [Tab -> Tokens] /\ local' \in 0..issued /\ cookie' \in 0..issued
    <3>1. CASE refresh[<<t, "init">>].at = "ok"
      BY <1>3, <2>2, <3>1, Written DEF InitEnds, CookieSet
    <3>2. CASE refresh[<<t, "init">>].at # "ok" /\ Clear(t)
      BY <1>0, <1>3, <3>2, Written DEF InitEnds, TypeOK
    <3>3. CASE /\ refresh[<<t, "init">>].at # "ok" /\ UNCHANGED local
               /\ tokens' = [tokens EXCEPT ![t] = [access |-> local, refresh |-> 0]]
      BY <1>3, <3>3, Pieces, Numbers DEF InitEnds, TypeOK
    <3>4. QED
      BY <1>3, <3>1, <3>2, <3>3 DEF InitEnds
  <2>4. QED
    BY <1>3, <2>1, <2>3 DEF InitEnds, TypeOK, account
<1>4. CASE LogoutLocal(t)
  <2>1. cookie \in Maybe /\ LeavesTo(t, cookie)
    BY <1>4, Numbers DEF LogoutLocal, TypeOK
  <2>2. QED
    BY <1>0, <1>4, <2>1, Written DEF LogoutLocal, TypeOK, account
<1>5. CASE Refreshed(t)
  <2>1. refresh[<<t, "call">>].new \in 0..issued /\ refresh[<<t, "call">>].new \in Maybe
    BY Read, Numbers
  <2>2. refresh' \in [Request -> Refresh]
    BY <1>5, Pieces, Requests DEF Refreshed, TypeOK
  <2>3. call' \in [Tab -> [Slot -> Call]]
    <3>1. \A i \in Slot : call[t][i] \in Call
      BY Read
    <3>2. \A c \in Call :
            [c EXCEPT !.at = "sent", !.access = refresh[<<t, "call">>].new, !.again = TRUE] \in Call
      BY <2>1 DEF Call
    <3>3. QED
      BY <1>5, <3>1, <3>2 DEF Refreshed, TypeOK
  <2>4. QED
    BY <1>5, <2>1, <2>2, <2>3, Written DEF Refreshed, CookieSet, TypeOK, account
<1>6. CASE Redirect(t)
  <2>1. refresh' \in [Request -> Refresh]
    BY <1>6, Pieces, Requests, Written DEF Redirect, TypeOK
  <2>2. call' \in [Tab -> [Slot -> Call]] /\ ready' \in [Tab -> BOOLEAN]
    BY <1>6, Pieces DEF Redirect, Dropped, TypeOK
  <2>3. QED
    BY <1>0, <1>6, <2>1, <2>2, Written DEF Redirect, TypeOK, account
<1>7. QED
  BY <1>1, <1>2, <1>3, <1>4, <1>5, <1>6

(* A request is another request. *)
LEMMA CallSet ==
  ASSUME TypeOK, NEW t \in Tab, NEW i \in Slot, NEW c \in Call
  PROVE  [call EXCEPT ![t][i] = c] \in [Tab -> [Slot -> Call]]
BY DEF TypeOK

(* Requests keep the types. *)
LEMMA CallTyped ==
  ASSUME TypeOK, BrowserInv, RefreshInv, NEW t \in Tab, NEW i \in Slot,
         \/ Get(t, i) \/ Logout(t, i) \/ GetAnswered(t, i) \/ LogoutAnswered(t, i)
         \/ LogoutFails(t, i) \/ Unauthorized(t, i)
  PROVE  TypeOK'
<1>0. 0 \in 0..issued /\ 0 \in Maybe /\ cookie \in Maybe
  <2>1. issued \in Nat /\ cookie \in 0..issued /\ cookie \in Maybe
    BY Numbers DEF TypeOK
  <2>2. QED
    BY <2>1, Zero
<1>1. CASE Get(t, i) \/ Logout(t, i)
  <2>1. tokens[t].access \in Maybe /\ tokens[t].refresh \in Maybe
    BY Read, Numbers
  <2>2. call' \in [Tab -> [Slot -> Call]]
    <3>1. \A m, n \in Maybe :
            [call EXCEPT ![t][i] = [at |-> "sent", body |-> m, access |-> n, again |-> FALSE]]
              \in [Tab -> [Slot -> Call]]
      BY CallSet, Pieces
    <3>2. CASE Get(t, i)
      <4>1. call' = [call EXCEPT ![t][i] =
                       [at |-> "sent", body |-> 0, access |-> tokens[t].access, again |-> FALSE]]
        BY <3>2 DEF Get
      <4>2. QED
        BY <1>0, <2>1, <3>1, <4>1
    <3>3. CASE Logout(t, i)
      BY <2>1, <3>1, <3>3 DEF Logout
    <3>4. QED
      BY <1>1, <3>2, <3>3
  <2>3. QED
    BY <1>1, <2>2 DEF Get, Logout, TypeOK, account, browser
<1>2. CASE GetAnswered(t, i)
  BY <1>2, CallSet, Pieces DEF GetAnswered, TypeOK, account, browser
<1>3. CASE LogoutAnswered(t, i)
  <2>1. call[t][i].body \in 0..issued /\ call[t][i].access \in 0..issued /\ call[t][i].at # "idle"
    BY <1>3, Read DEF LogoutAnswered
  <2>2. call[t][i].body \in 1..issued /\ call[t][i].access \in 1..issued
    BY <1>3, <2>1, Numbers DEF LogoutAnswered, BrowserInv
  <2>3. blocked' \subseteq 1..issued /\ revoked' \subseteq 1..issued
    BY <1>3, <2>2 DEF LogoutAnswered, TypeOK
  <2>4. LeavesTo(t, 0) /\ call' \in [Tab -> [Slot -> Call]]
    BY <1>3, CallSet, Pieces DEF LogoutAnswered
  <2>5. QED
    BY <1>0, <1>3, <2>3, <2>4, Written DEF LogoutAnswered, TypeOK
<1>4. CASE LogoutFails(t, i)
  <2>1. LeavesTo(t, cookie) /\ call' \in [Tab -> [Slot -> Call]] /\ trouble' \subseteq Trouble
    BY <1>4, CallSet, Pieces DEF LogoutFails, Happens, TypeOK
  <2>2. QED
    BY <1>0, <1>4, <2>1, Written DEF LogoutFails, TypeOK, account
<1>5. CASE Unauthorized(t, i)
  <2>1. call' \in [Tab -> [Slot -> Call]]
    <3>1. [call[t][i] EXCEPT !.at = "waiting"] \in Call
      BY Read DEF Call
    <3>2. \/ call' = [call EXCEPT ![t][i] = NoCall]
          \/ call' = [call EXCEPT ![t][i] = [call[t][i] EXCEPT !.at = "waiting"]]
      BY <1>5 DEF Unauthorized
    <3>3. [call EXCEPT ![t][i] = [call[t][i] EXCEPT !.at = "waiting"]] \in [Tab -> [Slot -> Call]]
      BY <3>1, CallSet
    <3>4. [call EXCEPT ![t][i] = NoCall] \in [Tab -> [Slot -> Call]]
      BY CallSet, Pieces
    <3>5. QED
      BY <3>2, <3>3, <3>4
  <2>2. refresh' \in [Request -> Refresh]
    BY <1>5, Requests, Written DEF Unauthorized, TypeOK
  <2>3. QED
    BY <1>5, <2>1, <2>2 DEF Unauthorized, TypeOK, account, browser
<1>6. QED
  BY <1>1, <1>2, <1>3, <1>4, <1>5

-----------------------------------------------------------------------------
(* The range of tokens *)

(* A step that leaves the tabs alone. *)
LEMMA BrowserKept ==
  ASSUME BrowserInv, TypeOK, UNCHANGED <<tokens, call>>, issued' = issued \/ issued' = issued + 1
  PROVE  BrowserInv'
<1>1. /\ \A t \in Tab : tokens[t].access \in Nat /\ tokens[t].refresh \in Nat
      /\ \A t \in Tab, i \in Slot : call[t][i].access \in Nat /\ call[t][i].body \in Nat
  BY DEF TypeOK, Tokens, Call, Maybe
<1>2. issued \in Nat
  BY Numbers
<1>3. QED
  BY <1>1, <1>2 DEF BrowserInv

(* What a step at the server does to the requests to refresh. *)
LEMMA ServerRefreshes ==
  ASSUME TypeOK, NEW r \in Request,
         Validate(r) \/ Block(r) \/ Swap(r) \/ RefreshBreaks(r)
  PROVE  /\ \A q \in Request : q # r => refresh'[q] = refresh[q]
         /\ refresh'[r].old = refresh[r].old
         /\ \/ Validate(r) /\ refresh'[r].at = "valid" /\ Accepts(refresh[r].old) /\ UNCHANGED stored
            \/ Block(r) /\ refresh'[r].at = "blocked" /\ UNCHANGED stored
            \/ /\ Swap(r) /\ Swaps(refresh[r].old) /\ Issue(refresh[r].old, era[refresh[r].old])
               /\ refresh'[r].at = "ok" /\ refresh'[r].new = issued'
            \/ refresh'[r].at = "no" /\ UNCHANGED stored
         /\ refresh'[r].at # "ok" => refresh'[r].new = refresh[r].new /\ UNCHANGED <<issued, parent, era>>
<1> USE DEF TypeOK, Refresh
<1>1. CASE Validate(r)
  <2>1. \/ refresh' = [refresh EXCEPT ![r].at = "valid"] /\ Accepts(refresh[r].old)
        \/ refresh' = [refresh EXCEPT ![r].at = "no"]
    BY <1>1 DEF Validate
  <2>2. QED
    BY <1>1, <2>1 DEF Validate, account
<1>2. CASE Block(r)
  BY <1>2 DEF Block
<1>3. CASE Swap(r) /\ Swaps(refresh[r].old)
  <2>1. refresh' = [refresh EXCEPT ![r].at = "ok", ![r].new = issued']
    BY <1>3 DEF Swap
  <2>2. Issue(refresh[r].old, era[refresh[r].old])
    BY <1>3 DEF Swap
  <2>3. QED
    BY <1>3, <2>1, <2>2
<1>4. CASE Swap(r) /\ ~Swaps(refresh[r].old)
  <2>1. refresh' = [refresh EXCEPT ![r].at = "no"] /\ UNCHANGED <<stored, issued, parent, era>>
    BY <1>4 DEF Swap
  <2>2. QED
    BY <2>1
<1>5. CASE RefreshBreaks(r)
  BY <1>5 DEF RefreshBreaks, account
<1>6. QED
  BY <1>1, <1>2, <1>3, <1>4, <1>5

(* Only refreshes and logins issue pairs. *)
LEMMA ServerRanges ==
  ASSUME TypeOK, BrowserInv, RefreshInv, NEW r \in Request,
         Validate(r) \/ Block(r) \/ Swap(r) \/ RefreshBreaks(r)
  PROVE  BrowserInv' /\ RefreshInv'
<1>1. issued' = issued \/ issued' = issued + 1
  BY ServerRefreshes DEF Issue
<1>2. BrowserInv'
  BY <1>1, BrowserKept DEF Validate, Block, Swap, RefreshBreaks, browser
<1>3. issued \in Nat
  BY Numbers
<1>4. \A q \in Request : refresh[q].old \in Nat /\ refresh[q].new \in Nat
  BY DEF TypeOK, Refresh, Maybe
<1>5. /\ refresh'[r].at \in {"valid", "blocked"} => refresh'[r].old # 0
      /\ refresh'[r].at = "ok" => refresh'[r].new # 0 /\ refresh'[r].new <= issued'
      /\ refresh'[r].at # "ok" => refresh'[r].new = refresh[r].new
  BY <1>3, ServerRefreshes DEF RefreshInv, Accepts, Block, Issue
<1>6. ASSUME NEW q \in Request
      PROVE  /\ refresh'[q].old <= issued' /\ refresh'[q].new <= issued'
             /\ refresh'[q].at \in {"valid", "blocked"} => refresh'[q].old # 0
             /\ refresh'[q].at = "ok" => refresh'[q].new # 0
  <2>1. CASE q = r
    BY <1>1, <1>3, <1>4, <1>5, <2>1, ServerRefreshes DEF RefreshInv
  <2>2. CASE q # r
    BY <1>1, <1>3, <1>4, <2>2, ServerRefreshes DEF RefreshInv
  <2>3. QED
    BY <2>1, <2>2
<1>7. QED
  BY <1>2, <1>6 DEF RefreshInv

(* A refresh that is begun or forgotten. *)
LEMMA RefreshReset ==
  ASSUME TypeOK, TypeOK', RefreshInv, issued' = issued \/ issued' = issued + 1,
         \A q \in Request : \/ refresh'[q] = refresh[q] \/ refresh'[q] = NoRefresh
                           \/ /\ refresh'[q].at = "sent" /\ refresh'[q].new = 0
                              /\ refresh'[q].old <= issued
  PROVE  RefreshInv'
<1>1. issued \in Nat
  BY Numbers
<1>2. \A q \in Request : refresh[q].old \in Nat /\ refresh[q].new \in Nat
  BY DEF TypeOK, Refresh, Maybe
<1>3. /\ NoRefresh.old <= issued' /\ NoRefresh.new <= issued' /\ NoRefresh.at = "idle"
  BY <1>1 DEF NoRefresh
<1>4. ASSUME NEW q \in Request
      PROVE  /\ refresh'[q].old <= issued' /\ refresh'[q].new <= issued'
             /\ refresh'[q].at \in {"valid", "blocked"} => refresh'[q].old # 0
             /\ refresh'[q].at = "ok" => refresh'[q].new # 0
  <2>1. CASE refresh'[q] = refresh[q]
    BY <1>1, <1>2, <2>1 DEF RefreshInv
  <2>2. CASE refresh'[q] = NoRefresh
    BY <1>3, <2>2
  <2>3. CASE refresh'[q].at = "sent" /\ refresh'[q].new = 0 /\ refresh'[q].old <= issued
    <3>1. refresh'[q].old \in Nat
      BY DEF TypeOK, Refresh, Maybe
    <3>2. QED
      BY <1>1, <2>3, <3>1
  <2>4. QED
    BY <2>1, <2>2, <2>3
<1>5. QED
  BY <1>4 DEF RefreshInv

(* What a tab's step does to the requests to refresh. *)
LEMMA TabRefreshes ==
  ASSUME TypeOK, NEW t \in Tab,
         \/ Login(t) \/ Load(t) \/ InitEnds(t) \/ LogoutLocal(t) \/ Refreshed(t) \/ Redirect(t)
         \/ \E i \in Slot :
              \/ Get(t, i) \/ Logout(t, i) \/ GetAnswered(t, i) \/ LogoutAnswered(t, i)
              \/ LogoutFails(t, i) \/ Unauthorized(t, i)
  PROVE  \A q \in Request :
           \/ refresh'[q] = refresh[q] \/ refresh'[q] = NoRefresh
           \/ /\ refresh'[q].at = "sent" /\ refresh'[q].new = 0 /\ refresh'[q].old \in {0, cookie}
<1>1. \A b, c : LET x == [NoRefresh EXCEPT !.at = "sent", !.old = c, !.was = b]
               IN  x.at = "sent" /\ x.new = 0 /\ x.old = c
  BY DEF NoRefresh
<1>2. \A c : LET x == [NoRefresh EXCEPT !.at = "sent", !.old = c]
            IN  x.at = "sent" /\ x.new = 0 /\ x.old = c
  BY DEF NoRefresh
<1>3. DOMAIN refresh = Request /\ <<t, "call">> \in Request /\ <<t, "init">> \in Request
  BY Requests DEF TypeOK
<1>4. ASSUME NEW c, LeavesTo(t, c), NEW q \in Request
      PROVE  \/ refresh'[q] = refresh[q]
             \/ refresh'[q].at = "sent" /\ refresh'[q].new = 0 /\ refresh'[q].old = c
  BY <1>2, <1>3, <1>4 DEF LeavesTo, TypeOK
<1>5. CASE Load(t)
  BY <1>1, <1>3, <1>5 DEF Load, Asks, TypeOK
<1>6. CASE InitEnds(t)
  BY <1>3, <1>6 DEF InitEnds, TypeOK
<1>7. CASE Refreshed(t)
  BY <1>3, <1>7 DEF Refreshed, TypeOK
<1>8. CASE Redirect(t)
  BY <1>1, <1>3, <1>8 DEF Redirect, Asks, TypeOK
<1>9. ASSUME NEW i \in Slot, Unauthorized(t, i), NEW q \in Request
      PROVE  \/ refresh'[q] = refresh[q]
             \/ refresh'[q].at = "sent" /\ refresh'[q].new = 0 /\ refresh'[q].old = cookie
  <2>1. refresh' = refresh \/ refresh' = [refresh EXCEPT ![<<t, "call">>] = Asks(FALSE)]
    BY <1>9 DEF Unauthorized
  <2>2. Asks(FALSE).at = "sent" /\ Asks(FALSE).new = 0 /\ Asks(FALSE).old = cookie
    BY DEF Asks, NoRefresh
  <2>3. QED
    BY <1>3, <2>1, <2>2 DEF TypeOK
<1>10. CASE Login(t) \/ \E i \in Slot : Get(t, i) \/ Logout(t, i) \/ GetAnswered(t, i)
  BY <1>10 DEF Login, Get, Logout, GetAnswered
<1>11. CASE LogoutLocal(t) \/ \E i \in Slot : LogoutAnswered(t, i) \/ LogoutFails(t, i)
  BY <1>4, <1>11 DEF LogoutLocal, LogoutAnswered, LogoutFails
<1>12. QED
  BY <1>5, <1>6, <1>7, <1>8, <1>9, <1>10, <1>11

(* Tokens a tab holds or sends have been issued. *)
LEMMA TabRanges ==
  ASSUME TypeOK, TypeOK', BrowserInv, RefreshInv, NEW t \in Tab,
         Login(t) \/ Load(t) \/ InitEnds(t) \/ LogoutLocal(t) \/ Refreshed(t) \/ Redirect(t)
  PROVE  BrowserInv' /\ RefreshInv'
<1>1. issued' = issued \/ issued' = issued + 1
  BY DEF Login, Load, InitEnds, LogoutLocal, Refreshed, Redirect, Issue, account
<1>2. issued \in Nat /\ cookie <= issued /\ local <= issued /\ local \in Nat /\ cookie \in Nat
  BY Numbers DEF TypeOK
<1>3. RefreshInv'
  BY <1>1, <1>2, TabRefreshes, RefreshReset
<1>4. /\ \A u \in Tab : tokens[u].access \in Nat /\ tokens[u].refresh \in Nat
      /\ \A u \in Tab, j \in Slot : call[u][j].access \in Nat /\ call[u][j].body \in Nat
  BY DEF TypeOK, Tokens, Call, Maybe
<1>5. /\ refresh[<<t, "call">>].new \in 0..issued /\ refresh[<<t, "init">>].new \in 0..issued
      /\ refresh[<<t, "call">>].at = "ok" => refresh[<<t, "call">>].new # 0
  BY Read, Requests DEF RefreshInv
<1>6. /\ NoTokens.access = 0 /\ NoTokens.refresh = 0 /\ NoCall.at = "idle"
      /\ NoCall.access = 0 /\ NoCall.body = 0
      /\ \A n \in Nat : Both(n).access = n /\ Both(n).refresh = n
  BY DEF NoTokens, NoCall, Both
<1>7. \A u \in Tab :
        /\ tokens'[u].access <= issued' /\ tokens'[u].refresh <= issued'
        /\ tokens'[u].refresh # 0 => tokens'[u].access # 0
  <2>1. CASE Login(t)
    BY <1>1, <1>2, <1>4, <1>6, <2>1 DEF Login, Issue, SetTokens, Both, BrowserInv, TypeOK
  <2>2. CASE Load(t)
    BY <1>2, <1>4, <1>6, <2>2 DEF Load, account, BrowserInv, TypeOK
  <2>3. CASE InitEnds(t)
    BY <1>2, <1>4, <1>5, <1>6, <2>3 DEF InitEnds, SetTokens, Clear, account, BrowserInv, TypeOK
  <2>4. CASE LogoutLocal(t)
    BY <1>2, <1>4, <1>6, <2>4 DEF LogoutLocal, LeavesTo, Clear, account, BrowserInv, TypeOK
  <2>5. CASE Refreshed(t)
    <3>1. /\ tokens' = [tokens EXCEPT ![t] = Both(refresh[<<t, "call">>].new)] /\ issued' = issued
          /\ refresh[<<t, "call">>].new # 0
      BY <1>5, <2>5 DEF Refreshed, SetTokens, account
    <3>2. QED
      BY <1>2, <1>4, <1>5, <1>6, <3>1 DEF BrowserInv, TypeOK
  <2>6. CASE Redirect(t)
    BY <1>2, <1>4, <1>6, <2>6 DEF Redirect, Clear, account, BrowserInv, TypeOK
  <2>7. QED
    BY <2>1, <2>2, <2>3, <2>4, <2>5, <2>6
<1>8. \A u \in Tab, j \in Slot :
        /\ call'[u][j].access <= issued' /\ call'[u][j].body <= issued'
        /\ call'[u][j].at # "idle" => call'[u][j].access # 0
  <2>1. CASE call' = call
    BY <1>1, <1>2, <1>4, <2>1 DEF BrowserInv
  <2>2. CASE call' = [call EXCEPT ![t] = [i \in Slot |-> NoCall]] /\ issued' = issued
    BY <1>2, <1>4, <1>6, <2>2 DEF BrowserInv, TypeOK
  <2>3. CASE Refreshed(t)
    <3>1. \A u \in Tab \ {t} : call'[u] = call[u]
      BY <2>3 DEF Refreshed, TypeOK
    <3>2. ASSUME NEW j \in Slot
          PROVE  \/ call'[t][j] = call[t][j]
                 \/ call'[t][j] = [call[t][j] EXCEPT !.at = "sent", !.access = refresh[<<t, "call">>].new, !.again = TRUE]
      BY <2>3, <3>2 DEF Refreshed, TypeOK
    <3>3. ASSUME NEW j \in Slot
          PROVE  \/ call'[t][j] = call[t][j]
                 \/ call'[t][j].access = refresh[<<t, "call">>].new /\ call'[t][j].body = call[t][j].body
      <4>1. call[t][j] \in Call
        BY DEF TypeOK
      <4>2. QED
        BY <3>2, <4>1 DEF Call
    <3>4. issued' = issued /\ refresh[<<t, "call">>].new # 0
      BY <1>5, <2>3 DEF Refreshed, account
    <3>5. QED
      BY <1>2, <1>4, <1>5, <3>1, <3>3, <3>4 DEF BrowserInv
  <2>4. QED
    BY <2>1, <2>2, <2>3 DEF Login, Load, InitEnds, LogoutLocal, Redirect, Dropped, account
<1>9. BrowserInv'
  BY <1>7, <1>8, Zenon DEF BrowserInv
<1>10. QED
  BY <1>3, <1>9

(* The calls of api.ts keep every pair they carry among those issued. *)
LEMMA CallRanges ==
  ASSUME TypeOK, TypeOK', BrowserInv, RefreshInv, NEW t \in Tab, NEW i \in Slot,
         \/ Get(t, i) \/ Logout(t, i) \/ GetAnswered(t, i) \/ LogoutAnswered(t, i)
         \/ LogoutFails(t, i) \/ Unauthorized(t, i)
  PROVE  BrowserInv' /\ RefreshInv'
<1>1. issued' = issued
  BY DEF Get, Logout, GetAnswered, LogoutAnswered, LogoutFails, Unauthorized, account
<1>2. issued \in Nat /\ cookie <= issued
  BY Numbers DEF TypeOK
<1>3. RefreshInv'
  BY <1>1, <1>2, TabRefreshes, RefreshReset
<1>4. /\ NoTokens.access = 0 /\ NoTokens.refresh = 0 /\ NoCall.at = "idle"
      /\ NoCall.access = 0 /\ NoCall.body = 0
  BY DEF NoTokens, NoCall
<1>5. \A u \in Tab :
        /\ tokens'[u].access <= issued /\ tokens'[u].refresh <= issued
        /\ tokens'[u].refresh # 0 => tokens'[u].access # 0
  <2>1. tokens' = tokens \/ tokens' = [tokens EXCEPT ![t] = NoTokens]
    <3>1. CASE LogoutAnswered(t, i) \/ LogoutFails(t, i)
      BY <3>1 DEF LogoutAnswered, LogoutFails, LeavesTo, Clear
    <3>2. CASE Get(t, i) \/ Logout(t, i) \/ GetAnswered(t, i) \/ Unauthorized(t, i)
      BY <3>2 DEF Get, Logout, GetAnswered, Unauthorized, browser
    <3>3. QED
      BY <3>1, <3>2
  <2>2. ASSUME NEW u \in Tab PROVE tokens'[u] = tokens[u] \/ tokens'[u] = NoTokens
    BY <2>1 DEF TypeOK
  <2>3. QED
    BY <1>2, <1>4, <2>2 DEF BrowserInv
<1>6. \A u \in Tab, j \in Slot : u # t \/ j # i => call'[u][j] = call[u][j]
  <2>1. \E c : call' = [call EXCEPT ![t][i] = c]
    <3>1. CASE Unauthorized(t, i)
      <4>1. \/ call' = [call EXCEPT ![t][i] = NoCall]
            \/ call' = [call EXCEPT ![t][i] = [call[t][i] EXCEPT !.at = "waiting"]]
        BY <3>1 DEF Unauthorized
      <4>2. QED
        BY <4>1
    <3>2. CASE Get(t, i) \/ Logout(t, i)
      BY <3>2 DEF Get, Logout
    <3>3. CASE GetAnswered(t, i) \/ LogoutAnswered(t, i) \/ LogoutFails(t, i)
      BY <3>3 DEF GetAnswered, LogoutAnswered, LogoutFails
    <3>4. QED
      BY <3>1, <3>2, <3>3
  <2>2. QED
    BY <2>1 DEF TypeOK
<1>7. /\ call'[t][i].access <= issued /\ call'[t][i].body <= issued
      /\ call'[t][i].at # "idle" => call'[t][i].access # 0
  <2>1. CASE Get(t, i) \/ Logout(t, i)
    <3>1. /\ call'[t][i].access = tokens[t].access
          /\ call'[t][i].body = 0 \/ call'[t][i].body = tokens[t].refresh
          /\ tokens[t].access # 0 \/ tokens[t].refresh # 0
      BY <2>1 DEF Get, Logout, TypeOK
    <3>2. QED
      BY <1>2, <3>1 DEF BrowserInv
  <2>2. CASE call' = [call EXCEPT ![t][i] = NoCall]
    BY <1>2, <1>4, <2>2 DEF TypeOK
  <2>3. CASE call' = [call EXCEPT ![t][i].at = "waiting"] /\ call[t][i].at # "idle"
    <3>1. /\ call'[t][i].access = call[t][i].access /\ call'[t][i].body = call[t][i].body
      BY <2>3 DEF TypeOK, Call
    <3>2. QED
      BY <2>3, <3>1 DEF BrowserInv
  <2>4. QED
    BY <2>1, <2>2, <2>3 DEF GetAnswered, LogoutAnswered, LogoutFails, Unauthorized
<1>8. \A u \in Tab, j \in Slot :
        /\ call'[u][j].access <= issued /\ call'[u][j].body <= issued
        /\ call'[u][j].at # "idle" => call'[u][j].access # 0
  BY <1>6, <1>7 DEF BrowserInv
<1>9. BrowserInv'
  BY <1>1, <1>5, <1>8, Zenon DEF BrowserInv
<1>10. QED
  BY <1>3, <1>9

Typed == TypeOK /\ BrowserInv /\ RefreshInv

(* A step keeps types and the ranges of the pairs. *)
LEMMA NextTyped ==
  ASSUME Typed, [Next]_vars
  PROVE  Typed'
<1> USE DEF Typed
<1>1. ASSUME NEW r \in Request, Validate(r) \/ Block(r) \/ Swap(r) \/ RefreshBreaks(r) PROVE Typed'
  BY <1>1, ServerTyped, ServerRanges
<1>2. CASE LoginElsewhere \/ ChangePassword \/ (\E n \in Pair : Expire(n)) \/ UNCHANGED vars
  <2>1. TypeOK'
    BY <1>2, AccountTyped
  <2>2. UNCHANGED <<tokens, call, refresh>> /\ (issued' = issued \/ issued' = issued + 1)
    BY <1>2 DEF LoginElsewhere, ChangePassword, Expire, Issue, vars, account, browser
  <2>3. RefreshInv' /\ BrowserInv'
    BY <2>1, <2>2, RefreshReset, BrowserKept
  <2>4. QED
    BY <2>1, <2>3
<1>3. ASSUME NEW t \in Tab,
             Login(t) \/ Load(t) \/ InitEnds(t) \/ LogoutLocal(t) \/ Refreshed(t) \/ Redirect(t)
      PROVE  Typed'
  BY <1>3, TabTyped, TabRanges
<1>4. ASSUME NEW t \in Tab, NEW i \in Slot,
             \/ Get(t, i) \/ Logout(t, i) \/ GetAnswered(t, i) \/ LogoutAnswered(t, i)
             \/ LogoutFails(t, i) \/ Unauthorized(t, i)
      PROVE  Typed'
  BY <1>4, CallTyped, CallRanges
<1>5. QED
  BY <1>1, <1>2, <1>3, <1>4 DEF Next

-----------------------------------------------------------------------------
(* The stored token and those it replaced *)

(* Pairs are issued for the stored token, by a swap, or for none; nothing  *)
(* else touches the stored token but a password change.                    *)
LEMMA StoredStep ==
  ASSUME Typed, [Next]_vars
  PROVE  \/ UNCHANGED <<stored, issued, parent, era, changes>>
         \/ /\ stored # 0 /\ Issue(stored, era[stored]) /\ UNCHANGED changes
         \/ Issue(0, changes) /\ UNCHANGED changes
         \/ stored' = 0 /\ changes' = changes + 1 /\ UNCHANGED <<issued, parent, era>>
<1>1. ASSUME NEW r \in Request, Swap(r)
      PROVE  \/ UNCHANGED <<stored, issued, parent, era, changes>>
             \/ stored # 0 /\ Issue(stored, era[stored]) /\ UNCHANGED changes
  <2>1. refresh[r].at = "blocked" => refresh[r].old # 0
    BY DEF Typed, RefreshInv
  <2>2. QED
    BY <1>1, <2>1 DEF Swap, Swaps
<1>2. ASSUME NEW r \in Request, Validate(r) \/ Block(r) \/ RefreshBreaks(r)
      PROVE  UNCHANGED <<stored, issued, parent, era, changes>>
  BY <1>2 DEF Validate, Block, RefreshBreaks, account
<1>3. ASSUME NEW t \in Tab,
             Load(t) \/ InitEnds(t) \/ LogoutLocal(t) \/ Refreshed(t) \/ Redirect(t)
      PROVE  UNCHANGED <<stored, issued, parent, era, changes>>
  BY <1>3 DEF Load, InitEnds, LogoutLocal, Refreshed, Redirect, account
<1>4. ASSUME NEW t \in Tab, NEW i \in Slot,
             \/ Get(t, i) \/ Logout(t, i) \/ GetAnswered(t, i) \/ LogoutAnswered(t, i)
             \/ LogoutFails(t, i) \/ Unauthorized(t, i)
      PROVE  UNCHANGED <<stored, issued, parent, era, changes>>
  BY <1>4 DEF Get, Logout, GetAnswered, LogoutAnswered, LogoutFails, Unauthorized, account
<1>5. CASE UNCHANGED vars \/ \E n \in Pair : Expire(n)
  BY <1>5 DEF Expire, vars, account
<1>6. CASE LoginElsewhere \/ ChangePassword \/ \E t \in Tab : Login(t)
  BY <1>6 DEF LoginElsewhere, ChangePassword, Login
<1>7. QED
  BY <1>1, <1>2, <1>3, <1>4, <1>5, <1>6 DEF Next

(* A token is exchanged only while it is stored, and then no more.         *)
LEMMA FamilyStep ==
  ASSUME Typed, FamilyInv, [Next]_vars
  PROVE  FamilyInv'
<1>1. issued \in Nat /\ stored \in Nat /\ stored <= issued
  BY Numbers DEF Typed, TypeOK, Maybe
<1>2. CASE UNCHANGED <<issued, parent>> /\ (stored' = stored \/ stored' = 0)
  BY <1>2 DEF FamilyInv
<1>3. ASSUME NEW p \in {0, stored}, NEW e, Issue(p, e) PROVE FamilyInv'
  <2>1. issued' = issued + 1 /\ stored' = issued' /\ issued' \in Pair
    BY <1>1, <1>3, SessionAssumption DEF Issue, Pair, Typed, TypeOK, Maybe
  <2>2. \A n \in 1..issued : parent'[n] = parent[n]
    BY <1>1, <1>3, <2>1, SessionAssumption DEF Issue, Pair, Typed, TypeOK, Maybe
  <2>3. parent'[issued'] = p
    BY <1>3, <2>1 DEF Issue, Typed, TypeOK
  <2>4. \A n \in 1..issued : parent[n] \in Nat /\ parent[n] < n
    BY <1>1, SessionAssumption DEF FamilyInv, Pair, Typed, TypeOK, Maybe
  <2>5. ASSUME NEW n \in 1..issued'
        PROVE  parent'[n] < n /\ (parent'[n] # 0 => parent'[n] # stored')
    <3>1. CASE n \in 1..issued
      BY <1>1, <2>1, <2>2, <2>4, <3>1
    <3>2. CASE n = issued'
      BY <1>1, <2>1, <2>3, <3>2
    <3>3. QED
      BY <1>1, <2>1, <3>1, <3>2
  <2>6. QED
    BY <2>5 DEF FamilyInv
<1>4. QED
  BY <1>2, <1>3, StoredStep

(* No pair goes back to a login before the last password change.           *)
LEMMA RevivalStep ==
  ASSUME Typed, NoRevival, [Next]_vars
  PROVE  NoRevival'
<1>1. CASE UNCHANGED <<stored, era, changes>> \/ stored' = 0
  BY <1>1 DEF NoRevival
<1>2. ASSUME NEW p, NEW e, Issue(p, e), e = changes, UNCHANGED changes PROVE NoRevival'
  <2>1. issued' \in Pair /\ stored' = issued'
    BY <1>2, SessionAssumption DEF Issue, Pair, Typed, TypeOK, Maybe
  <2>2. era'[issued'] = e
    BY <1>2, <2>1 DEF Issue, Typed, TypeOK
  <2>3. QED
    BY <1>2, <2>1, <2>2 DEF NoRevival
<1>3. CASE stored # 0 /\ Issue(stored, era[stored]) /\ UNCHANGED changes
  BY <1>2, <1>3 DEF NoRevival
<1>4. QED
  BY <1>1, <1>2, <1>3, StoredStep

(* No token has two children. *)
LEMMA SiblingStep ==
  ASSUME Typed, FamilyInv, RedeemedOnce, [Next]_vars
  PROVE  RedeemedOnce'
<1>1. issued \in Nat
  BY Numbers DEF Typed
<1>2. CASE UNCHANGED <<issued, parent>>
  BY <1>2 DEF RedeemedOnce
<1>3. ASSUME NEW p \in {0, stored}, NEW e, Issue(p, e) PROVE RedeemedOnce'
  <2>1. issued' = issued + 1 /\ issued' \in Pair
    BY <1>1, <1>3, SessionAssumption DEF Issue, Pair, Typed, TypeOK, Maybe
  <2>2. \A n \in 1..issued : parent'[n] = parent[n]
    BY <1>1, <1>3, <2>1, SessionAssumption DEF Issue, Pair, Typed, TypeOK, Maybe
  <2>3. parent'[issued'] = p
    BY <1>3, <2>1 DEF Issue, Typed, TypeOK
  <2>4. \A n \in 1..issued : parent[n] = p => p = 0
    BY DEF FamilyInv
  <2>5. \A n \in 1..issued' : n \in 1..issued \/ n = issued'
    BY <1>1, <2>1
  <2>6. QED
    BY <2>2, <2>3, <2>4, <2>5 DEF RedeemedOnce
<1>4. QED
  BY <1>2, <1>3, StoredStep

-----------------------------------------------------------------------------
(* What a tab does at once *)

(* What a tab does at once leaves the other tabs' tokens, calls and refreshes. *)
LEMMA OtherTabs ==
  ASSUME TypeOK, NEW t \in Tab, NEW u \in Tab, u # t,
         \/ Login(t) \/ Load(t) \/ InitEnds(t) \/ LogoutLocal(t) \/ Refreshed(t) \/ Redirect(t)
         \/ \E i \in Slot :
              \/ Get(t, i) \/ Logout(t, i) \/ GetAnswered(t, i) \/ LogoutAnswered(t, i)
              \/ LogoutFails(t, i) \/ Unauthorized(t, i)
  PROVE  /\ tokens'[u] = tokens[u] /\ call'[u] = call[u]
         /\ refresh'[<<u, "call">>] = refresh[<<u, "call">>]
         /\ refresh'[<<u, "init">>] = refresh[<<u, "init">>]
<1> DEFINE Same == /\ tokens'[u] = tokens[u] /\ call'[u] = call[u]
                   /\ refresh'[<<u, "call">>] = refresh[<<u, "call">>]
                   /\ refresh'[<<u, "init">>] = refresh[<<u, "init">>]
<1>1. \A x, y \in {"call", "init"} : <<u, x>> # <<t, y>> /\ <<u, x>> \in Request
  BY DEF Request, Way
<1> USE DEF TypeOK
<1>2. ASSUME NEW c, LeavesTo(t, c), call' = call \/ \E i, d : call' = [call EXCEPT ![t][i] = d] PROVE Same
  BY <1>1, <1>2 DEF LeavesTo, Clear
<1>3. CASE Login(t) \/ Load(t)
  BY <1>1, <1>3 DEF Login, Load, SetTokens
<1>4. CASE InitEnds(t)
  BY <1>1, <1>4 DEF InitEnds, SetTokens, Clear
<1>5. CASE Refreshed(t)
  BY <1>1, <1>5 DEF Refreshed, SetTokens
<1>6. CASE Redirect(t)
  BY <1>1, <1>6 DEF Redirect, Clear
<1>7. ASSUME NEW i \in Slot, Get(t, i) \/ Logout(t, i) \/ GetAnswered(t, i) PROVE Same
  BY <1>7 DEF Get, Logout, GetAnswered, browser
<1>8. ASSUME NEW i \in Slot, Unauthorized(t, i) PROVE Same
  BY <1>1, <1>8 DEF Unauthorized, browser
<1>9. CASE LogoutLocal(t) \/ \E i \in Slot : LogoutAnswered(t, i) \/ LogoutFails(t, i)
  BY <1>2, <1>9 DEF LogoutLocal, LogoutAnswered, LogoutFails
<1>10. QED
  BY <1>3, <1>4, <1>5, <1>6, <1>7, <1>8, <1>9

(* A tab's invariant depends on its tokens, calls and whether its refreshes run. *)
LEMMA TabKept ==
  ASSUME NEW u \in Tab, TabInv(u), tokens'[u] = tokens[u], call'[u] = call[u],
         refresh'[<<u, "call">>].at = "idle" <=> refresh[<<u, "call">>].at = "idle",
         refresh'[<<u, "init">>].at = "idle" <=> refresh[<<u, "init">>].at = "idle"
  PROVE  TabInv(u)'
BY DEF TabInv, Waiting

(* A tab's own steps, other than its calls, keep its invariant. *)
LEMMA OwnTab ==
  ASSUME TypeOK, NEW t \in Tab, TabInv(t),
         Login(t) \/ Load(t) \/ InitEnds(t) \/ LogoutLocal(t) \/ Refreshed(t) \/ Redirect(t)
  PROVE  TabInv(t)'
<1>1. /\ <<t, "call">> \in Request /\ <<t, "init">> \in Request /\ <<t, "call">> # <<t, "init">>
      /\ NoRefresh.at = "idle" /\ NoTokens.access = 0 /\ NoTokens.refresh = 0
      /\ NoCall.at = "idle" /\ NoCall.body = 0
  BY Requests DEF NoRefresh, NoTokens, NoCall
<1> USE DEF TypeOK, TabInv
<1>2. CASE Login(t)
  BY <1>1, <1>2 DEF Login, Waiting
<1>3. CASE Load(t)
  <2>1. refresh[<<t, "call">>].at = "idle"
    BY <1>3 DEF Load, Way
  <2>2. QED
    BY <1>1, <1>3, <2>1 DEF Load
<1>4. CASE InitEnds(t)
  BY <1>1, <1>4 DEF InitEnds, Waiting
<1>5. CASE LogoutLocal(t)
  BY <1>1, <1>5 DEF LogoutLocal, LeavesTo, Clear, Waiting
<1>6. CASE Refreshed(t)
  <2>1. refresh'[<<t, "call">>].at = "idle" /\ refresh'[<<t, "init">>] = refresh[<<t, "init">>]
    BY <1>1, <1>6 DEF Refreshed
  <2>2. \A i \in Slot : /\ call'[t][i].at = "idle" <=> call[t][i].at = "idle"
                        /\ call'[t][i].body = call[t][i].body
    <3>1. ASSUME NEW i \in Slot
          PROVE  \/ call'[t][i] = call[t][i]
                 \/ /\ call'[t][i] = [call[t][i] EXCEPT !.at = "sent", !.access = refresh[<<t, "call">>].new,
                                                       !.again = TRUE]
                    /\ call[t][i].at = "waiting"
      BY <1>6 DEF Refreshed, Waiting
    <3>2. \A i \in Slot : call[t][i] \in Call
      OBVIOUS
    <3>3. ASSUME NEW i \in Slot,
                 call'[t][i] = [call[t][i] EXCEPT !.at = "sent", !.access = refresh[<<t, "call">>].new,
                                                  !.again = TRUE]
          PROVE  call'[t][i].at = "sent" /\ call'[t][i].body = call[t][i].body
      BY <3>2, <3>3 DEF Call
    <3>4. QED
      BY <3>1, <3>3
  <2>3. refresh[<<t, "init">>].at = "idle"
    BY <1>6 DEF Refreshed, Waiting
  <2>4. QED
    BY <2>1, <2>2, <2>3
<1>7. CASE Redirect(t)
  BY <1>1, <1>7 DEF Redirect, Clear, Dropped
<1>8. QED
  BY <1>2, <1>3, <1>4, <1>5, <1>6, <1>7

(* A tab's calls keep its invariant. *)
LEMMA OwnCall ==
  ASSUME TypeOK, NEW t \in Tab, NEW i \in Slot, TabInv(t),
         \/ Get(t, i) \/ Logout(t, i) \/ GetAnswered(t, i) \/ LogoutAnswered(t, i)
         \/ LogoutFails(t, i) \/ Unauthorized(t, i)
  PROVE  TabInv(t)'
<1>1. /\ <<t, "call">> \in Request /\ <<t, "init">> \in Request /\ <<t, "call">> # <<t, "init">>
      /\ NoRefresh.at = "idle" /\ NoTokens.access = 0 /\ NoTokens.refresh = 0
      /\ NoCall.at = "idle" /\ NoCall.body = 0
  BY Requests DEF NoRefresh, NoTokens, NoCall
<1> USE DEF TypeOK, TabInv
<1>2. CASE Get(t, i)
  BY <1>1, <1>2 DEF Get, LoggingOut, Waiting, browser
<1>3. CASE Logout(t, i)
  BY <1>1, <1>3 DEF Logout, Waiting, browser
<1>4. CASE GetAnswered(t, i)
  BY <1>1, <1>4 DEF GetAnswered, Waiting, browser
<1>5. CASE LogoutAnswered(t, i) \/ LogoutFails(t, i)
  <2>1. /\ call[t][i].at = "sent" /\ call[t][i].body # 0
        /\ call' = [call EXCEPT ![t][i] = NoCall] /\ \E c : LeavesTo(t, c)
    BY <1>5 DEF LogoutAnswered, LogoutFails
  <2>2. \A j \in Slot : call'[t][j].at = "idle" /\ call'[t][j].body = 0
    BY <1>1, <2>1
  <2>3. refresh[<<t, "call">>].at = "idle"
    BY <2>1 DEF Waiting
  <2>4. tokens'[t] = NoTokens /\ refresh'[<<t, "call">>].at = "idle"
    BY <1>1, <2>1, <2>3 DEF LeavesTo, Clear
  <2>5. QED
    BY <2>2, <2>4
<1>6. CASE Unauthorized(t, i)
  <2>1. refresh'[<<t, "init">>] = refresh[<<t, "init">>] /\ refresh[<<t, "init">>].at = "idle"
    BY <1>1, <1>6 DEF Unauthorized
  <2>2. CASE call[t][i].again
    <3>1. /\ call[t][i].at = "sent" /\ call' = [call EXCEPT ![t][i] = NoCall]
          /\ UNCHANGED <<refresh, tokens>>
      BY <1>6, <2>2 DEF Unauthorized, browser
    <3>2. call'[t][i] = NoCall /\ \A j \in Slot : j # i => call'[t][j] = call[t][j]
      BY <3>1
    <3>3. Waiting(t) \subseteq Waiting(t)'
      BY <3>1, <3>2 DEF Waiting
    <3>4. QED
      BY <1>1, <2>1, <3>1, <3>2, <3>3
  <2>3. CASE ~call[t][i].again
    <3>1. call' = [call EXCEPT ![t][i].at = "waiting"]
      BY <1>6, <2>3 DEF Unauthorized
    <3>2. call'[t][i].at = "waiting" /\ call'[t][i].body = call[t][i].body
      BY <3>1 DEF Call
    <3>3. \A j \in Slot : j # i => call'[t][j] = call[t][j]
      BY <3>1
    <3>4. call[t][i].at = "sent"
      BY <1>6 DEF Unauthorized
    <3>5. QED
      <4>1. tokens' = tokens /\ Waiting(t)' # {}
        BY <1>6, <3>2 DEF Waiting, browser, Unauthorized
      <4>2. \A j \in Slot : /\ call'[t][j].body = call[t][j].body
                            /\ call'[t][j].at = "idle" <=> call[t][j].at = "idle"
        BY <3>2, <3>3, <3>4
      <4>3. QED
        BY <2>1, <4>1, <4>2
  <2>4. QED
    BY <2>2, <2>3
<1>7. QED
  BY <1>2, <1>3, <1>4, <1>5, <1>6

(* Every step keeps every tab's invariant. *)
LEMMA TabsStep ==
  ASSUME TypeOK, \A t \in Tab : TabInv(t), [Next]_vars, NEW u \in Tab
  PROVE  TabInv(u)'
<1>1. ASSUME NEW r \in Request, Validate(r) \/ Block(r) \/ Swap(r) \/ RefreshBreaks(r)
      PROVE  TabInv(u)'
  <2>1. refresh[r].at # "idle" /\ UNCHANGED <<tokens, call>>
    BY <1>1 DEF Validate, Block, Swap, RefreshBreaks, browser
  <2>2. \A q \in Request : refresh'[q].at = "idle" <=> refresh[q].at = "idle"
    BY <1>1, <2>1, ServerRefreshes
  <2>3. QED
    BY <2>1, <2>2, Requests, TabKept
<1>2. CASE LoginElsewhere \/ ChangePassword \/ (\E n \in Pair : Expire(n)) \/ UNCHANGED vars
  <2>1. UNCHANGED <<tokens, call, refresh>>
    BY <1>2 DEF LoginElsewhere, ChangePassword, Expire, vars, browser
  <2>2. QED
    BY <2>1, TabKept
<1>3. ASSUME NEW t \in Tab,
             Login(t) \/ Load(t) \/ InitEnds(t) \/ LogoutLocal(t) \/ Refreshed(t) \/ Redirect(t)
      PROVE  TabInv(u)'
  BY <1>3, OwnTab, OtherTabs, TabKept
<1>4. ASSUME NEW t \in Tab, NEW i \in Slot,
             \/ Get(t, i) \/ Logout(t, i) \/ GetAnswered(t, i) \/ LogoutAnswered(t, i)
             \/ LogoutFails(t, i) \/ Unauthorized(t, i)
      PROVE  TabInv(u)'
  BY <1>4, OwnCall, OtherTabs, TabKept
<1>5. QED
  BY <1>1, <1>2, <1>3, <1>4 DEF Next

-----------------------------------------------------------------------------
(* The cookie *)

(* A step that stores nothing and delivers nothing: what the browser holds *)
(* stays or is dropped, requests to refresh may begin with the cookie, and *)
(* a blocked token is the one of a refresh, or the cookie goes.            *)
LEMMA CookieFrame ==
  ASSUME Typed, CookieInv, trouble = {}, UNCHANGED stored, cookie' \in {0, cookie},
         \A q \in Request :
           /\ refresh'[q].at = "ok" <=> refresh[q].at = "ok"
           /\ refresh'[q].at = "ok" => refresh'[q].new = refresh[q].new
           /\ refresh'[q].old \in {refresh[q].old, 0, cookie}
           /\ refresh[q].at = "blocked" /\ refresh[q].old = stored =>
                refresh'[q].at = "blocked" /\ refresh'[q].old = stored,
         \A u \in Tab : tokens'[u].refresh \in {tokens[u].refresh, 0},
         \A u \in Tab, j \in Slot : call'[u][j].body \in {call[u][j].body, 0, tokens[u].refresh},
         \/ stored \in blocked' => stored \in blocked
         \/ /\ \A q \in Request : refresh[q].at # "ok"
            /\ cookie' = 0 \/ \E q \in Request : refresh'[q].at = "blocked" /\ refresh'[q].old = stored
  PROVE  CookieInv'
<1>1. ASSUME NEW r \in Request, refresh'[r].at = "ok" PROVE OnTheWay(r)'
  <2>1. refresh[r].at = "ok" /\ OnTheWay(r) /\ refresh'[r].new = stored /\ stored # 0
    BY <1>1 DEF CookieInv, OnTheWay, Typed, RefreshInv
  <2>2. stored \notin blocked' /\ cookie' # stored
    BY <2>1 DEF OnTheWay
  <2>3. \A q \in Request : refresh'[q].old # stored /\ (refresh'[q].at = "ok" => q = r)
    BY <2>1 DEF OnTheWay
  <2>4. /\ \A u \in Tab : tokens'[u].refresh # stored
        /\ \A u \in Tab, j \in Slot : call'[u][j].body # stored
    BY <2>1 DEF OnTheWay
  <2>5. QED
    BY <2>1, <2>2, <2>3, <2>4 DEF OnTheWay
<1>2. (\A r \in Request : refresh'[r].at # "ok") => cookie' \in {0, stored'}
  BY DEF CookieInv
<1>3. stored' \in blocked' =>
        cookie' = 0 \/ \E r \in Request : refresh'[r].at = "blocked" /\ refresh'[r].old = stored'
  BY DEF CookieInv
<1>4. QED
  BY <1>1, <1>2, <1>3 DEF CookieInv

(* What goes wrong is no longer covered. *)
LEMMA Troubled ==
  ASSUME NEW h, Happens(h)
  PROVE  CookieInv'
BY DEF Happens, CookieInv

(* The server's part of a refresh keeps the cookie's invariant. *)
LEMMA ServerCookie ==
  ASSUME Typed, CookieInv, trouble = {}, NEW r \in Request,
         Validate(r) \/ Block(r) \/ Swap(r) \/ RefreshBreaks(r)
  PROVE  CookieInv'
<1>1. UNCHANGED <<cookie, tokens, call>>
  BY DEF Validate, Block, Swap, RefreshBreaks, browser
<1>2. CASE Validate(r)
  <2>1. /\ blocked' = blocked /\ refresh[r].at = "sent" /\ refresh'[r].at \in {"valid", "no"}
        /\ UNCHANGED stored
    <3>1. \/ refresh' = [refresh EXCEPT ![r].at = "valid"]
          \/ refresh' = [refresh EXCEPT ![r].at = "no"]
      BY <1>2 DEF Validate
    <3>2. refresh'[r].at \in {"valid", "no"}
      BY <3>1 DEF Typed, TypeOK, Refresh
    <3>3. QED
      BY <1>2, <3>2 DEF Validate, account
  <2>2. QED
    BY <1>1, <1>2, <2>1, ServerRefreshes, CookieFrame DEF Typed
<1>3. CASE Block(r)
  <2>1. /\ refresh[r].at = "valid" /\ refresh'[r].at = "blocked" /\ UNCHANGED stored
        /\ blocked' = blocked \union {refresh[r].old}
    BY <1>3 DEF Block, Typed, TypeOK, Refresh
  <2>2. \/ stored \in blocked' => stored \in blocked
        \/ (\A q \in Request : refresh[q].at # "ok") /\ refresh[r].old = stored
    BY <2>1 DEF CookieInv, OnTheWay
  <2>3. QED
    BY <1>1, <1>3, <2>1, <2>2, ServerRefreshes, CookieFrame DEF Typed
<1>4. CASE Swap(r) /\ ~Swaps(refresh[r].old)
  <2>1. /\ refresh[r].at = "blocked" /\ refresh'[r].at = "no" /\ UNCHANGED <<stored, blocked>>
        /\ refresh[r].old # stored
    BY <1>4 DEF Swap, Swaps, Typed, TypeOK, Refresh
  <2>2. QED
    BY <1>1, <1>4, <2>1, ServerRefreshes, CookieFrame DEF Typed
<1>5. CASE Swap(r) /\ Swaps(refresh[r].old)
  <2>1. /\ refresh[r].at = "blocked" /\ refresh[r].old = stored /\ blocked' = blocked
        /\ Issue(refresh[r].old, era[refresh[r].old])
    BY <1>5 DEF Swap, Swaps
  <2>2. /\ stored' = issued + 1 /\ issued' = stored' /\ issued \in Nat /\ stored \in Nat
        /\ stored <= issued
    BY <2>1, Numbers DEF Issue, Typed, TypeOK, Maybe
  <2>3. /\ refresh'[r].at = "ok" /\ refresh'[r].new = stored' /\ refresh'[r].old = stored
        /\ \A q \in Request : q # r => refresh'[q] = refresh[q]
    BY <1>5, <2>1, <2>2, ServerRefreshes DEF Typed, Block, Validate
  <2>4. \A q \in Request : q # r => refresh'[q].at # "ok"
    BY <2>1, <2>3 DEF CookieInv, OnTheWay
  <2>5. stored' \notin blocked' /\ cookie' # stored'
    BY <1>1, <2>1, <2>2 DEF Typed, TypeOK
  <2>6. \A q \in Request : refresh'[q].old # stored'
    <3>1. \A q \in Request : refresh[q].old <= issued
      BY DEF Typed, RefreshInv
    <3>2. QED
      BY <2>2, <2>3, <3>1
  <2>7. /\ \A u \in Tab : tokens'[u].refresh # stored'
        /\ \A u \in Tab, j \in Slot : call'[u][j].body # stored'
    BY <1>1, <2>2 DEF Typed, BrowserInv
  <2>8. OnTheWay(r)'
    BY <2>3, <2>4, <2>5, <2>6, <2>7 DEF OnTheWay
  <2>9. QED
    BY <2>3, <2>4, <2>5, <2>8 DEF CookieInv
<1>6. CASE RefreshBreaks(r)
  BY <1>6, Troubled DEF RefreshBreaks
<1>7. QED
  BY <1>2, <1>3, <1>4, <1>5, <1>6

(* The answer reaches its tab: now the browser has the stored token.       *)
LEMMA Delivered ==
  ASSUME Typed, CookieInv, trouble = {}, NEW r \in Request, refresh[r].at = "ok",
         UNCHANGED <<stored, blocked>>, cookie' = refresh[r].new,
         refresh' = [refresh EXCEPT ![r] = NoRefresh]
  PROVE  CookieInv'
<1>1. OnTheWay(r)
  BY DEF CookieInv
<1>2. \A q \in Request : refresh'[q].at # "ok"
  BY <1>1 DEF OnTheWay, Typed, TypeOK, NoRefresh
<1>3. cookie' = stored' /\ stored' \notin blocked'
  BY <1>1 DEF OnTheWay
<1>4. QED
  BY <1>2, <1>3 DEF CookieInv

(* What is dropped is none of the stored token's.                          *)
LEMMA Reset ==
  /\ NoRefresh.at = "idle" /\ NoRefresh.old = 0 /\ NoRefresh.new = 0
  /\ NoTokens.refresh = 0 /\ NoCall.body = 0
  /\ \A n : [access |-> n, refresh |-> 0].refresh = 0
BY DEF NoRefresh, NoTokens, NoCall

(* A tab's steps, other than its calls, keep the cookie's invariant. *)
LEMMA TabCookie ==
  ASSUME Typed, CookieInv, trouble = {}, NEW t \in Tab, TabInv(t),
         Login(t) \/ Load(t) \/ InitEnds(t) \/ LogoutLocal(t) \/ Refreshed(t) \/ Redirect(t)
  PROVE  CookieInv'
<1>1. CASE Login(t)
  BY <1>1, Troubled DEF Login
<1>2. CASE Refreshed(t)
  BY <1>2, Requests, Delivered DEF Refreshed, CookieSet, account
<1>3. CASE InitEnds(t) /\ refresh[<<t, "init">>].at = "ok"
  BY <1>3, Requests, Delivered DEF InitEnds, CookieSet, account
<1>4. ASSUME UNCHANGED stored, blocked' = blocked, cookie' = cookie,
             \A q \in Request :
               \/ refresh'[q] = refresh[q]
               \/ /\ refresh[q].at \notin {"ok", "blocked"} /\ refresh'[q].at \notin {"ok", "blocked"}
                  /\ refresh'[q].old \in {0, cookie},
             \A u \in Tab : tokens'[u].refresh \in {tokens[u].refresh, 0},
             \A u \in Tab, j \in Slot : call'[u][j].body \in {call[u][j].body, 0}
      PROVE  CookieInv'
  <2>1. \A q \in Request :
           /\ refresh'[q].at = "ok" <=> refresh[q].at = "ok"
           /\ refresh'[q].at = "ok" => refresh'[q].new = refresh[q].new
           /\ refresh'[q].old \in {refresh[q].old, 0, cookie}
           /\ refresh[q].at = "blocked" /\ refresh[q].old = stored =>
                refresh'[q].at = "blocked" /\ refresh'[q].old = stored
    BY <1>4
  <2>2. QED
    BY <1>4, <2>1, CookieFrame
<1>5. /\ <<t, "call">> \in Request /\ <<t, "init">> \in Request /\ <<t, "call">> # <<t, "init">>
      /\ \A c : [NoRefresh EXCEPT !.at = "sent", !.old = c].at = "sent"
      /\ \A c : [NoRefresh EXCEPT !.at = "sent", !.old = c].old = c
      /\ \A w : Asks(w).at = "sent" /\ Asks(w).old = cookie
      /\ Asks(FALSE).at = "sent" /\ Asks(FALSE).old = cookie
  BY Requests DEF NoRefresh, Asks
<1> USE DEF Typed, TypeOK
<1>6. CASE Load(t)
  <2>1. refresh[<<t, "init">>].at = "idle"
    BY <1>6 DEF Load, Way
  <2>2. UNCHANGED <<stored, blocked, cookie>>
    BY <1>6 DEF Load, account
  <2>3. \A q \in Request : q # <<t, "init">> => refresh'[q] = refresh[q]
    BY <1>6 DEF Load
  <2>4. refresh'[<<t, "init">>].at = "sent" /\ refresh'[<<t, "init">>].old = cookie
    BY <1>5, <1>6 DEF Load
  <2>5. /\ \A u \in Tab : tokens'[u].refresh \in {tokens[u].refresh, 0}
        /\ \A u \in Tab, j \in Slot : call'[u][j].body \in {call[u][j].body, 0}
    BY <1>6, Reset DEF Load
  <2>6. QED
    BY <1>4, <2>1, <2>2, <2>3, <2>4, <2>5
<1>7. CASE InitEnds(t) /\ refresh[<<t, "init">>].at # "ok"
  <2>1. refresh[<<t, "init">>].at = "no" /\ refresh' = [refresh EXCEPT ![<<t, "init">>] = NoRefresh]
    BY <1>7 DEF InitEnds
  <2>2. UNCHANGED <<stored, blocked, cookie, call>>
    BY <1>7 DEF InitEnds, account
  <2>3. \A u \in Tab : tokens'[u].refresh \in {tokens[u].refresh, 0}
    <3>1. \/ tokens' = [tokens EXCEPT ![t] = NoTokens]
          \/ tokens' = [tokens EXCEPT ![t] = [access |-> local, refresh |-> 0]]
      BY <1>7 DEF InitEnds, Clear
    <3>2. QED
      BY <3>1, Reset
  <2>4. QED
    BY <1>4, <2>1, <2>2, <2>3, Reset
<1>8. CASE LogoutLocal(t)
  <2>1. refresh[<<t, "init">>].at = "idle"
    BY <1>8 DEF LogoutLocal, TabInv, NoTokens
  <2>2. UNCHANGED <<stored, blocked, cookie, call>>
    BY <1>8 DEF LogoutLocal, LeavesTo, account
  <2>3. /\ tokens' = [tokens EXCEPT ![t] = NoTokens]
        /\ refresh' = [refresh EXCEPT ![<<t, "init">>] = [NoRefresh EXCEPT !.at = "sent", !.old = cookie]]
    BY <1>8 DEF LogoutLocal, LeavesTo, Clear
  <2>4. refresh'[<<t, "init">>].at = "sent" /\ refresh'[<<t, "init">>].old = cookie
    BY <1>5, <2>3
  <2>5. \A q \in Request : q # <<t, "init">> => refresh'[q] = refresh[q]
    BY <2>3
  <2>6. \A u \in Tab : tokens'[u].refresh \in {tokens[u].refresh, 0}
    BY <2>3, Reset
  <2>7. QED
    BY <1>4, <2>1, <2>2, <2>4, <2>5, <2>6
<1>9. CASE Redirect(t)
  <2>1. refresh[<<t, "call">>].at = "no"
    BY <1>9 DEF Redirect
  <2>2. refresh[<<t, "init">>].at = "idle"
    BY <2>1 DEF TabInv, Waiting
  <2>3. UNCHANGED <<stored, blocked, cookie>>
    BY <1>9 DEF Redirect, account
  <2>4. /\ refresh'[<<t, "init">>] = Asks(FALSE) /\ refresh'[<<t, "call">>] = NoRefresh
        /\ \A q \in Request : q # <<t, "init">> /\ q # <<t, "call">> => refresh'[q] = refresh[q]
    BY <1>5, <1>9 DEF Redirect
  <2>5. /\ \A u \in Tab : tokens'[u].refresh \in {tokens[u].refresh, 0}
        /\ \A u \in Tab, j \in Slot : call'[u][j].body \in {call[u][j].body, 0}
    BY <1>9, Reset DEF Redirect, Clear, Dropped
  <2>6. \A q \in Request :
          \/ refresh'[q] = refresh[q]
          \/ /\ refresh[q].at \notin {"ok", "blocked"} /\ refresh'[q].at \notin {"ok", "blocked"}
             /\ refresh'[q].old \in {0, cookie}
    BY <1>5, <2>1, <2>2, <2>4, Reset
  <2>7. QED
    BY <1>4, <2>3, <2>5, <2>6
<1>10. QED
  BY <1>1, <1>2, <1>3, <1>6, <1>7, <1>8, <1>9

(* A tab's calls keep the cookie's invariant. *)
LEMMA CallCookie ==
  ASSUME Typed, CookieInv, trouble = {}, NEW t \in Tab, NEW i \in Slot, TabInv(t),
         \/ Get(t, i) \/ Logout(t, i) \/ GetAnswered(t, i) \/ LogoutAnswered(t, i)
         \/ LogoutFails(t, i) \/ Unauthorized(t, i)
  PROVE  CookieInv'
<1>1. ASSUME UNCHANGED stored, cookie' \in {0, cookie},
             \A q \in Request :
               \/ refresh'[q] = refresh[q]
               \/ /\ refresh[q].at = "idle" /\ refresh'[q].at = "sent"
                  /\ refresh'[q].old \in {0, cookie},
             \A u \in Tab : tokens'[u].refresh \in {tokens[u].refresh, 0},
             \A u \in Tab, j \in Slot : call'[u][j].body \in {call[u][j].body, 0, tokens[u].refresh},
             \/ stored \in blocked' => stored \in blocked
             \/ (\A q \in Request : refresh[q].at # "ok") /\ cookie' = 0
      PROVE  CookieInv'
  <2>1. \A q \in Request :
           /\ refresh'[q].at = "ok" <=> refresh[q].at = "ok"
           /\ refresh'[q].at = "ok" => refresh'[q].new = refresh[q].new
           /\ refresh'[q].old \in {refresh[q].old, 0, cookie}
           /\ refresh[q].at = "blocked" /\ refresh[q].old = stored =>
                refresh'[q].at = "blocked" /\ refresh'[q].old = stored
    BY <1>1
  <2>2. QED
    BY <1>1, <2>1, CookieFrame
<1>2. /\ <<t, "call">> \in Request /\ <<t, "init">> \in Request
      /\ \A c : [NoRefresh EXCEPT !.at = "sent", !.old = c].at = "sent"
      /\ \A c : [NoRefresh EXCEPT !.at = "sent", !.old = c].old = c
      /\ \A w : Asks(w).at = "sent" /\ Asks(w).old = cookie
      /\ Asks(FALSE).at = "sent" /\ Asks(FALSE).old = cookie
  BY Requests DEF NoRefresh, Asks
<1>3. \A u \in Tab, j \in Slot : call'[u][j].body \in {call[u][j].body, 0, tokens[u].refresh}
  <2>1. \A u \in Tab, j \in Slot : u # t \/ j # i => call'[u][j] = call[u][j]
    <3>1. CASE Unauthorized(t, i)
      <4>1. \/ call' = [call EXCEPT ![t][i] = NoCall]
            \/ call' = [call EXCEPT ![t][i] = [call[t][i] EXCEPT !.at = "waiting"]]
        BY <3>1 DEF Unauthorized
      <4>2. QED
        BY <4>1 DEF Typed, TypeOK
    <3>2. CASE Get(t, i) \/ Logout(t, i)
      BY <3>2 DEF Get, Logout, Typed, TypeOK
    <3>3. CASE GetAnswered(t, i) \/ LogoutAnswered(t, i) \/ LogoutFails(t, i)
      BY <3>3 DEF GetAnswered, LogoutAnswered, LogoutFails, Typed, TypeOK
    <3>4. QED
      BY <3>1, <3>2, <3>3
  <2>2. call'[t][i].body \in {call[t][i].body, 0, tokens[t].refresh}
    <3>1. CASE Get(t, i) \/ Logout(t, i)
      BY <3>1 DEF Get, Logout, Typed, TypeOK
    <3>2. CASE call' = [call EXCEPT ![t][i] = NoCall]
      BY <3>2, Reset DEF Typed, TypeOK
    <3>3. CASE call' = [call EXCEPT ![t][i].at = "waiting"]
      BY <3>3 DEF Typed, TypeOK, Call
    <3>4. QED
      BY <3>1, <3>2, <3>3 DEF GetAnswered, LogoutAnswered, LogoutFails, Unauthorized
  <2>3. QED
    BY <2>1, <2>2
<1>4. CASE Get(t, i) \/ Logout(t, i) \/ GetAnswered(t, i)
  <2>1. UNCHANGED <<stored, blocked, cookie, refresh, tokens>>
    BY <1>4 DEF Get, Logout, GetAnswered, account, browser
  <2>2. QED
    BY <1>1, <1>3, <2>1
<1>5. CASE Unauthorized(t, i)
  <2>1. UNCHANGED <<stored, blocked, cookie, tokens>>
    BY <1>5 DEF Unauthorized, account, browser
  <2>2. \/ refresh' = refresh
        \/ /\ refresh[<<t, "call">>].at = "idle"
           /\ refresh' = [refresh EXCEPT ![<<t, "call">>] = Asks(FALSE)]
    BY <1>5 DEF Unauthorized
  <2>3. \A q \in Request :
          \/ refresh'[q] = refresh[q]
          \/ refresh[q].at = "idle" /\ refresh'[q].at = "sent" /\ refresh'[q].old = cookie
    <3>1. CASE refresh' = refresh
      BY <3>1
    <3>2. CASE /\ refresh[<<t, "call">>].at = "idle"
               /\ refresh' = [refresh EXCEPT ![<<t, "call">>] = Asks(FALSE)]
      <4>1. refresh'[<<t, "call">>] = Asks(FALSE)
        BY <1>2, <3>2 DEF Typed, TypeOK
      <4>2. \A q \in Request : q # <<t, "call">> => refresh'[q] = refresh[q]
        BY <3>2 DEF Typed, TypeOK
      <4>3. QED
        BY <1>2, <3>2, <4>1, <4>2
    <3>3. QED
      BY <2>2, <3>1, <3>2
  <2>4. QED
    BY <1>1, <1>3, <2>1, <2>3
<1>6. ASSUME NEW c \in {0, cookie}, LeavesTo(t, c), call[t][i].at = "sent", UNCHANGED stored,
             \/ stored \in blocked' => stored \in blocked
             \/ (\A q \in Request : refresh[q].at # "ok") /\ c = 0
      PROVE  CookieInv'
  <2>1. refresh[<<t, "init">>].at = "idle"
    BY <1>6 DEF TabInv
  <2>2. /\ tokens' = [tokens EXCEPT ![t] = NoTokens] /\ cookie' = c
        /\ refresh' = [refresh EXCEPT ![<<t, "init">>] = [NoRefresh EXCEPT !.at = "sent", !.old = c]]
    BY <1>6 DEF LeavesTo, Clear
  <2>3. refresh'[<<t, "init">>].at = "sent" /\ refresh'[<<t, "init">>].old = c
    BY <1>2, <2>2 DEF Typed, TypeOK
  <2>4. \A q \in Request : q # <<t, "init">> => refresh'[q] = refresh[q]
    BY <2>2 DEF Typed, TypeOK
  <2>5. \A u \in Tab : tokens'[u].refresh \in {tokens[u].refresh, 0}
    BY <2>2, Reset DEF Typed, TypeOK
  <2>6. QED
    BY <1>1, <1>3, <1>6, <2>1, <2>2, <2>3, <2>4, <2>5
<1>7. CASE LogoutFails(t, i) /\ call[t][i].at = "sent" /\ UNCHANGED trouble
  BY <1>6, <1>7 DEF LogoutFails, account
<1>8. CASE LogoutFails(t, i) /\ Happens("down")
  BY <1>8, Troubled
<1>9. CASE LogoutAnswered(t, i)
  <2>1. /\ call[t][i].at = "sent" /\ LeavesTo(t, 0) /\ UNCHANGED stored
        /\ blocked' = blocked \union {call[t][i].body}
    BY <1>9 DEF LogoutAnswered
  <2>2. \/ stored \in blocked' => stored \in blocked
        \/ \A q \in Request : refresh[q].at # "ok"
    BY <2>1 DEF CookieInv, OnTheWay
  <2>3. QED
    BY <1>6, <2>1, <2>2
<1>10. QED
  BY <1>4, <1>5, <1>7, <1>8, <1>9 DEF LogoutFails

(* Every step keeps the cookie's invariant. *)
LEMMA CookieStep ==
  ASSUME Typed, CookieInv, \A t \in Tab : TabInv(t), [Next]_vars
  PROVE  CookieInv'
<1>1. CASE trouble # {}
  <2>1. trouble \subseteq trouble'
    <3>1. ASSUME NEW r \in Request, Validate(r) \/ Block(r) \/ Swap(r) \/ RefreshBreaks(r)
          PROVE  trouble \subseteq trouble'
      BY <3>1 DEF Validate, Block, Swap, RefreshBreaks, Happens
    <3>2. ASSUME NEW t \in Tab,
                 \/ Login(t) \/ Load(t) \/ InitEnds(t) \/ LogoutLocal(t) \/ Refreshed(t) \/ Redirect(t)
          PROVE  trouble \subseteq trouble'
      BY <3>2 DEF Login, Load, InitEnds, LogoutLocal, Refreshed, Redirect, Happens
    <3>3. ASSUME NEW t \in Tab, NEW i \in Slot,
                 \/ Get(t, i) \/ Logout(t, i) \/ GetAnswered(t, i) \/ LogoutAnswered(t, i)
                 \/ LogoutFails(t, i) \/ Unauthorized(t, i)
          PROVE  trouble \subseteq trouble'
      BY <3>3 DEF Get, Logout, GetAnswered, LogoutAnswered, LogoutFails, Unauthorized, Happens
    <3>4. ASSUME LoginElsewhere \/ ChangePassword \/ (\E n \in Pair : Expire(n)) \/ UNCHANGED vars
          PROVE  trouble \subseteq trouble'
      BY <3>4 DEF LoginElsewhere, ChangePassword, Expire, Happens, vars
    <3>5. QED
      BY <3>1, <3>2, <3>3, <3>4 DEF Next
  <2>2. QED
    BY <1>1, <2>1 DEF CookieInv
<1>2. CASE trouble = {}
  <2>1. CASE UNCHANGED vars \/ \E n \in Pair : Expire(n)
    BY <1>2, <2>1, CookieFrame DEF Expire, vars, account, browser
  <2>2. CASE LoginElsewhere \/ ChangePassword
    BY <2>2, Troubled DEF LoginElsewhere, ChangePassword
  <2>3. QED
    BY <1>2, <2>1, <2>2, ServerCookie, TabCookie, CallCookie DEF Next
<1>3. QED
  BY <1>1, <1>2

-----------------------------------------------------------------------------
(* The theorems *)

(* SessionInv is inductive. *)
THEOREM SessionInvariance == Spec => []SessionInv
<1>1. Init => SessionInv
  <2> SUFFICES ASSUME Init PROVE SessionInv
    OBVIOUS
  <2>1. TypeOK /\ BrowserInv /\ RefreshInv
    BY InitTyped
  <2>2. FamilyInv /\ RedeemedOnce
    BY SessionAssumption DEF Init, FamilyInv, RedeemedOnce, Pair
  <2>3. NoRevival
    BY SessionAssumption DEF Init, NoRevival, Pair
  <2>4. ASSUME NEW t \in Tab PROVE TabInv(t)
    BY Requests, Reset DEF Init, TabInv, NoCall
  <2>5. CookieInv
    BY Reset DEF Init, CookieInv
  <2>6. QED
    BY <2>1, <2>2, <2>3, <2>4, <2>5 DEF SessionInv
<1>2. SessionInv /\ [Next]_vars => SessionInv'
  <2> SUFFICES ASSUME SessionInv, [Next]_vars PROVE SessionInv'
    OBVIOUS
  <2>1. Typed
    BY DEF SessionInv, Typed
  <2>2. Typed' /\ FamilyInv' /\ RedeemedOnce' /\ NoRevival'
    BY <2>1, NextTyped, FamilyStep, SiblingStep, RevivalStep DEF SessionInv
  <2>3. \A t \in Tab : TabInv(t)'
    BY TabsStep DEF SessionInv
  <2>4. CookieInv'
    BY <2>1, CookieStep DEF SessionInv
  <2>5. QED
    BY <2>2, <2>3, <2>4 DEF SessionInv, Typed
<1>3. QED
  BY <1>1, <1>2, PTL DEF Spec

(* Types of the account, the browser and the requests; tokens are issued   *)
(* before anybody holds them.                                              *)
THEOREM SessionTypeCorrect == Spec => []TypeOK
<1>1. SessionInv => TypeOK
  BY DEF SessionInv
<1>2. QED
  BY <1>1, SessionInvariance, PTL

(* RotateRefreshToken never gives two pairs for one refresh token, however *)
(* many tabs and devices present it, whatever breaks.                      *)
THEOREM TokensRedeemedOnce == Spec => []RedeemedOnce
<1>1. SessionInv => RedeemedOnce
  BY DEF SessionInv
<1>2. QED
  BY <1>1, SessionInvariance, PTL

(* A refresh under way while the password is changed does not outlive the  *)
(* change.                                                                 *)
THEOREM NothingRevived == Spec => []NoRevival
<1>1. SessionInv => NoRevival
  BY DEF SessionInv
<1>2. QED
  BY <1>1, SessionInvariance, PTL

(* While nothing goes wrong a cookie that is there when no refresh is      *)
(* under way can be redeemed.                                              *)
THEOREM CookieStaysInStep == Spec => []InStep
<1>1. SessionInv => InStep
  BY DEF SessionInv, InStep, Quiet, CookieInv, Accepts
<1>2. QED
  BY <1>1, SessionInvariance, PTL

=============================================================================
