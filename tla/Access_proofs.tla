--------------------------- MODULE Access_proofs ---------------------------
(***************************************************************************)
(* Proofs about signing in.                                                *)
(*                                                                         *)
(* Access, for any officers and any number of tokens: rotation leaves one  *)
(* usable token per sign-in, and the calls of a phone cannot leave it      *)
(* holding a spent one by their order alone.                               *)
(*                                                                         *)
(* LoginLimiter, for any addresses, identities, limit, window and          *)
(* capacity: no key gets more attempts than its limit within a window,     *)
(* and a refused caller who waits as long as it was told is let in.        *)
(***************************************************************************)
EXTENDS Access, LoginLimiter, SequenceTheorems, FiniteSetTheorems, WellFoundedInduction,
        TLAPS

InFlight(c) == calls[c].at \in {"renewed", "half"}

\* A chain is named after the token that began it.
ChainsInOrder == \A i \in 1..Len(tokens) : tokens[i].chain \in 1..i

\* A new token on its way is in no other hand, so nobody can spend it.
NewTokensUnshared ==
    /\ \A c \in Calls : InFlight(c) \/ At(c, "refresh") => calls[c].token \in 1..Len(tokens)
    /\ \A c \in Calls : InFlight(c) =>
          /\ tokens[calls[c].token].state # "spent"
          /\ refresh # calls[c].token
          /\ \A d \in Calls \ {c} :
                InFlight(d) \/ At(d, "refresh") => calls[d].token # calls[c].token

LoginNamed == Busy("login") => calls["login"].user \in Users

CallsTyped == calls \in [Calls -> CallState] /\ LoginNamed

Consistent ==
    TypeOK /\ LoginNamed /\ ChainsInOrder /\ OneLivePerChain /\ NewTokensUnshared /\ HeldTokenWorks

LEMMA IdleTyped == IdleCall \in CallState
  BY DEF IdleCall, CallState

LEMMA AccessTyped ==
    ASSUME NEW u \in Users, NEW b \in BOOLEAN
    PROVE  [user |-> u, fresh |-> b] \in AccessToken
  BY DEF AccessToken

LEMMA CallTyped ==
    ASSUME NEW at \in {"idle", "ask", "refresh", "renewed", "half"},
           NEW retrying \in BOOLEAN, NEW user \in Users \union {None},
           NEW carried \in AccessToken \union {None}, NEW token \in Nat,
           NEW grant \in BOOLEAN
    PROVE  Call(at, retrying, user, carried, token, grant) \in CallState
  BY DEF Call, CallState

LEMMA CallFields ==
    ASSUME NEW x \in CallState
    PROVE  /\ x.at \in {"idle", "ask", "refresh", "renewed", "half"}
           /\ x.retrying \in BOOLEAN
           /\ x.user \in Users \union {None}
           /\ x.carried \in AccessToken \union {None}
           /\ x.token \in Nat
           /\ x.grant \in BOOLEAN
  BY DEF CallState

LEMMA InitConsistent == Init => Consistent
<1> SUFFICES ASSUME Init PROVE Consistent
  OBVIOUS
<1>1. Len(tokens) = 0 /\ tokens \in Seq(TokenRow)
  BY EmptySeq DEF Init
<1>2. TypeOK
  <2>1. calls \in [Calls -> CallState]
    BY IdleTyped DEF Init
  <2>2. lost \subseteq 1..Len(tokens) /\ refresh \in 0..Len(tokens)
    BY <1>1 DEF Init
  <2> QED
    BY <1>1, <2>1, <2>2 DEF Init, TypeOK
<1>3. LoginNamed /\ OneLivePerChain /\ ChainsInOrder /\ NewTokensUnshared /\ HeldTokenWorks
  BY <1>1 DEF LoginNamed, Busy, Calls, Init, ChainsInOrder, OneLivePerChain, NewTokensUnshared,
              HeldTokenWorks, InFlight, At, IdleCall
<1> QED
  BY <1>2, <1>3 DEF Consistent

\* Rotation and revocation change the state of one row.
LEMMA WithRow ==
    ASSUME TypeOK, NEW t \in 1..Len(tokens), NEW state \in {"live", "spent", "dead"}
    PROVE  /\ With(t, state) \in Seq(TokenRow)
           /\ Len(With(t, state)) = Len(tokens)
           /\ \A i \in 1..Len(tokens) \ {t} : With(t, state)[i] = tokens[i]
           /\ With(t, state)[t] = Row(t, state)
<1>1. tokens \in Seq(TokenRow) /\ Row(t, state) \in TokenRow
  BY ElementOfSeq DEF TypeOK, Row, TokenRow
<1> QED
  BY <1>1, ExceptSeq DEF With

LEMMA RowFields ==
    ASSUME NEW t, NEW state
    PROVE  /\ Row(t, state).user = tokens[t].user
           /\ Row(t, state).state = state
           /\ Row(t, state).chain = tokens[t].chain
           /\ Row(t, state).parent = tokens[t].parent
  BY DEF Row

LEMMA RotatedRows ==
    ASSUME TypeOK, NEW t \in 1..Len(tokens)
    PROVE  /\ Rotated(t) \in Seq(TokenRow)
           /\ Len(Rotated(t)) = Len(tokens) + 1
           /\ \A i \in 1..Len(tokens) \ {t} : Rotated(t)[i] = tokens[i]
           /\ Rotated(t)[t] = Row(t, "spent")
           /\ Rotated(t)[Len(tokens) + 1] =
                 [user |-> tokens[t].user, state |-> "live",
                  chain |-> tokens[t].chain, parent |-> t]
<1> DEFINE new == [user |-> tokens[t].user, state |-> "live",
                   chain |-> tokens[t].chain, parent |-> t]
<1>1. tokens[t] \in TokenRow
  BY ElementOfSeq DEF TypeOK
<1>2. new \in TokenRow
  BY <1>1, LenProperties DEF TokenRow, TypeOK
<1>3. With(t, "spent") \in Seq(TokenRow) /\ Len(With(t, "spent")) = Len(tokens)
  BY WithRow
<1> HIDE DEF new
<1>4. Rotated(t) = Append(With(t, "spent"), new)
  BY DEF Rotated, new
<1>5. /\ Rotated(t) \in Seq(TokenRow)
      /\ Len(Rotated(t)) = Len(tokens) + 1
      /\ Rotated(t)[Len(tokens) + 1] = new
      /\ \A i \in 1..Len(tokens) : Rotated(t)[i] = With(t, "spent")[i]
  BY <1>2, <1>3, <1>4, AppendProperties
<1> QED
  BY <1>5, WithRow DEF new

LEMMA GrantedRows ==
    ASSUME TypeOK, LoginNamed, LoginGranted
    PROVE  /\ tokens' \in Seq(TokenRow)
           /\ Len(tokens') = Len(tokens) + 1
           /\ \A i \in 1..Len(tokens) : tokens'[i] = tokens[i]
           /\ tokens'[Len(tokens) + 1] =
                 [user |-> calls["login"].user, state |-> "live",
                  chain |-> Len(tokens) + 1, parent |-> 0]
<1> DEFINE new == [user |-> calls["login"].user, state |-> "live",
                   chain |-> Len(tokens) + 1, parent |-> 0]
<1>1. new \in TokenRow
  BY LenProperties DEF TokenRow, TypeOK, LoginNamed, LoginGranted, At, Busy
<1>2. tokens' = Append(tokens, new)
  BY DEF LoginGranted, Issue
<1> HIDE DEF new
<1>3. /\ tokens' \in Seq(TokenRow)
      /\ Len(tokens') = Len(tokens) + 1
      /\ tokens'[Len(tokens) + 1] = new
      /\ \A i \in 1..Len(tokens) : tokens'[i] = tokens[i]
  BY <1>1, <1>2, AppendProperties DEF TypeOK
<1> QED
  BY <1>3 DEF new

LEMMA RefreshedRows ==
    ASSUME TypeOK, NewTokensUnshared, NEW c \in Calls, RefreshServed(c),
           NEW t, t = calls[c].token
    PROVE  /\ t \in 1..Len(tokens) /\ tokens[t].state = "live"
           /\ tokens' \in Seq(TokenRow)
           /\ Len(tokens') = Len(tokens) + 1
           /\ \A i \in 1..Len(tokens) \ {t} : tokens'[i] = tokens[i]
           /\ tokens'[t].state = "spent" /\ tokens'[t].chain = tokens[t].chain
           /\ tokens'[t].parent = tokens[t].parent
           /\ tokens'[Len(tokens) + 1].state = "live"
           /\ tokens'[Len(tokens) + 1].chain = tokens[t].chain
           /\ tokens'[Len(tokens) + 1].parent = t
<1>1. t \in 1..Len(tokens) /\ tokens[t].state = "live" /\ tokens' = Rotated(t)
  BY DEF RefreshServed, NewTokensUnshared
<1>2. /\ Rotated(t) \in Seq(TokenRow)
      /\ Len(Rotated(t)) = Len(tokens) + 1
      /\ \A i \in 1..Len(tokens) \ {t} : Rotated(t)[i] = tokens[i]
      /\ Rotated(t)[t] = Row(t, "spent")
      /\ Rotated(t)[Len(tokens) + 1] =
            [user |-> tokens[t].user, state |-> "live",
             chain |-> tokens[t].chain, parent |-> t]
  BY <1>1, RotatedRows
<1>3. /\ Rotated(t)[t].state = "spent" /\ Rotated(t)[t].chain = tokens[t].chain
      /\ Rotated(t)[t].parent = tokens[t].parent
  BY <1>2, RowFields
<1> QED
  BY <1>1, <1>2, <1>3

LEMMA DeadRows ==
    ASSUME TypeOK, NEW t \in 1..Len(tokens), TokenDies(t)
    PROVE  /\ tokens' \in Seq(TokenRow)
           /\ Len(tokens') = Len(tokens)
           /\ \A i \in 1..Len(tokens) \ {t} : tokens'[i] = tokens[i]
           /\ tokens[t].state = "live" /\ tokens'[t].state = "dead"
           /\ tokens'[t].chain = tokens[t].chain
           /\ tokens'[t].parent = tokens[t].parent
  BY WithRow, RowFields DEF TokenDies

\* The rows change in three ways only.
LEMMA RowsChange ==
    ASSUME Next
    PROVE  \/ UNCHANGED tokens
           \/ LoginGranted
           \/ \E c \in Calls : RefreshServed(c)
           \/ \E t \in 1..Len(tokens) : TokenDies(t)
  BY DEF Next, StartLogin, ClearAccess, ClearRefresh, StartRun, StartSync, EndRun, SyncStep,
         SyncAccepted, SyncUnauthorised, LoginStep, LoginRefused, TokenStep,
         RefreshRefused, SaveAccess, SaveRefresh, CallFails, PairLost, AccessExpires,
         AppKilled

LEMMA ChainsStep == Consistent /\ [Next]_vars => ChainsInOrder' /\ OneLivePerChain'
<1> SUFFICES ASSUME Consistent, [Next]_vars PROVE ChainsInOrder' /\ OneLivePerChain'
  OBVIOUS
<1> USE DEF ChainsInOrder, OneLivePerChain
<1>0. TypeOK /\ LoginNamed /\ ChainsInOrder /\ OneLivePerChain /\ NewTokensUnshared
  BY DEF Consistent
<1>n. Len(tokens) \in Nat
  BY <1>0, LenProperties DEF TypeOK
<1>1. CASE UNCHANGED tokens
  BY <1>0, <1>1
<1>2. CASE LoginGranted
  <2>1. \A i \in 1..Len(tokens') :
            \/ i \in 1..Len(tokens) /\ tokens'[i] = tokens[i]
            \/ i = Len(tokens) + 1 /\ tokens'[i].chain = i
    BY <1>0, <1>n, <1>2, GrantedRows
  <2> QED
    BY <1>0, <1>n, <2>1
<1>3. ASSUME NEW c \in Calls, RefreshServed(c) PROVE ChainsInOrder' /\ OneLivePerChain'
  <2> DEFINE t == calls[c].token
  <2>1. t = calls[c].token
    OBVIOUS
  <2> HIDE DEF t
  <2>2. \A i \in 1..Len(tokens') :
            \/ i \in 1..Len(tokens) \ {t} /\ tokens'[i] = tokens[i]
            \/ i = t /\ tokens'[i].state = "spent" /\ tokens'[i].chain = tokens[t].chain
            \/ i = Len(tokens) + 1 /\ tokens'[i].chain = tokens[t].chain
    BY <1>0, <1>n, <1>3, <2>1, RefreshedRows
  <2>3. /\ t \in 1..Len(tokens) /\ tokens[t].state = "live"
        /\ Len(tokens') = Len(tokens) + 1
    BY <1>0, <1>3, <2>1, RefreshedRows
  <2> QED
    BY <1>0, <1>n, <2>2, <2>3
<1>4. ASSUME NEW t \in 1..Len(tokens), TokenDies(t) PROVE ChainsInOrder' /\ OneLivePerChain'
  <2>1. /\ Len(tokens') = Len(tokens)
        /\ \A i \in 1..Len(tokens) :
              \/ tokens'[i] = tokens[i]
              \/ tokens'[i].state = "dead" /\ tokens'[i].chain = tokens[i].chain
    BY <1>0, <1>4, DeadRows
  <2> QED
    BY <1>0, <1>n, <2>1
<1>5. CASE UNCHANGED vars
  BY <1>1, <1>5 DEF vars
<1> QED
  BY <1>1, <1>2, <1>3, <1>4, <1>5, RowsChange

-----------------------------------------------------------------------------
LEMMA CallsTypedStep == Consistent /\ [Next]_vars => CallsTyped'
<1> SUFFICES ASSUME Consistent, [Next]_vars PROVE CallsTyped'
  OBVIOUS
<1> USE DEF CallsTyped, LoginNamed, Busy, Calls
<1>0. /\ CallsTyped /\ Len(tokens) \in Nat /\ refresh \in Nat
      /\ access \in AccessToken \union {None}
  BY LenProperties DEF Consistent, TypeOK
<1>c. ASSUME NEW c \in Calls
      PROVE  /\ calls[c].retrying \in BOOLEAN /\ calls[c].user \in Users \union {None}
             /\ calls[c].carried \in AccessToken \union {None}
             /\ calls[c].token \in Nat /\ calls[c].grant \in BOOLEAN
  BY <1>0, CallFields
<1>1. ASSUME UNCHANGED calls PROVE CallsTyped'
  BY <1>0, <1>1
<1>2. ASSUME NEW c \in Calls, Ends(c) PROVE CallsTyped'
  <2>1. calls' = [calls EXCEPT ![c] = IdleCall]
    BY <1>2 DEF Ends, Becomes
  <2> QED
    BY <1>0, <2>1, IdleTyped DEF IdleCall
<1>3. ASSUME NEW c \in Calls, NEW at \in {"refresh", "renewed", "half"},
             NEW token \in Nat, NEW grant \in BOOLEAN, Busy(c),
             Moves(c, at, token, grant)
      PROVE  CallsTyped'
  <2> DEFINE x == Call(at, calls[c].retrying, calls[c].user, calls[c].carried,
                       token, grant)
  <2>1. x \in CallState
    BY <1>c, CallTyped
  <2>3. x.user = calls[c].user
    BY DEF Call
  <2>2. calls' = [calls EXCEPT ![c] = x]
    BY <1>3 DEF Moves, Becomes
  <2> HIDE DEF x
  <2> QED
    BY <1>0, <1>3, <2>1, <2>2, <2>3
<1>4. ASSUME NEW u \in Users, StartLogin(u) PROVE CallsTyped'
  <2> DEFINE x == Call("ask", FALSE, u, None, 0, FALSE)
  <2>1. x \in CallState /\ x.user = u
    BY CallTyped DEF Call
  <2>2. calls' = [calls EXCEPT !["login"] = x]
    BY <1>4 DEF StartLogin, Becomes
  <2> HIDE DEF x
  <2> QED
    BY <1>0, <2>1, <2>2
<1>5. ASSUME StartSync PROVE CallsTyped'
  <2> DEFINE x == Call("ask", FALSE, None, access, 0, FALSE)
  <2>1. x \in CallState
    BY <1>0, CallTyped
  <2>2. calls' = [calls EXCEPT !["sync"] = x]
    BY <1>5 DEF StartSync, Becomes
  <2> HIDE DEF x
  <2> QED
    BY <1>0, <2>1, <2>2
<1>6. ASSUME NEW c \in Calls, At(c, "ask"), Unauthorised(c) PROVE CallsTyped'
  BY <1>0, <1>2, <1>3, <1>6 DEF Unauthorised, At
<1>7. ASSUME NEW c \in Calls, SaveRefresh(c) PROVE CallsTyped'
  <2> DEFINE carried == IF c = "sync" THEN access ELSE None
             x == Call("ask", TRUE, calls[c].user, carried, 0, FALSE)
  <2>1. CASE calls[c].grant
    BY <1>2, <1>7, <2>1 DEF SaveRefresh
  <2>2. CASE ~calls[c].grant
    <3>1. x \in CallState /\ x.user = calls[c].user
      BY <1>0, <1>c, CallTyped DEF Call
    <3>2. calls' = [calls EXCEPT ![c] = x]
      BY <1>7, <2>2 DEF SaveRefresh, Becomes
    <3>3. Busy(c)
      BY <1>7 DEF SaveRefresh, At
    <3> HIDE DEF x
    <3> QED
      BY <1>0, <3>1, <3>2, <3>3
  <2> QED
    BY <2>1, <2>2
<1>8. ASSUME AppKilled PROVE CallsTyped'
  BY <1>8, IdleTyped DEF AppKilled, IdleCall
<1>9. ASSUME NEW c \in Calls, TokenStep(c) \/ CallFails(c) \/ PairLost(c) PROVE CallsTyped'
  <2>1. CASE RefreshServed(c)
    <3>1. Moves(c, "renewed", Len(tokens) + 1, FALSE)
      BY <2>1 DEF RefreshServed
    <3>2. Busy(c) /\ Len(tokens) + 1 \in Nat
      BY <1>0, <2>1 DEF RefreshServed, At
    <3> QED
      BY <1>3, <3>1, <3>2
  <2>2. CASE RefreshRefused(c) \/ CallFails(c) \/ PairLost(c)
    BY <1>2, <2>2 DEF RefreshRefused, CallFails, PairLost
  <2>3. CASE SaveAccess(c)
    BY <1>3, <1>c, <2>3 DEF SaveAccess, At
  <2> QED
    BY <1>7, <1>9, <2>1, <2>2, <2>3 DEF TokenStep
<1>10. ASSUME SyncStep PROVE CallsTyped'
  BY <1>2, <1>6, <1>10 DEF SyncStep, SyncAccepted, SyncUnauthorised
<1>11. ASSUME LoginStep PROVE CallsTyped'
  <2>1. CASE LoginGranted
    <3>1. Moves("login", "renewed", Len(tokens) + 1, TRUE)
      BY <2>1 DEF LoginGranted
    <3>2. Busy("login") /\ Len(tokens) + 1 \in Nat
      BY <1>0, <2>1 DEF LoginGranted, At
    <3> QED
      BY <1>3, <3>1, <3>2
  <2>2. CASE LoginRefused
    BY <1>6, <2>2 DEF LoginRefused
  <2> QED
    BY <1>11, <2>1, <2>2 DEF LoginStep
<1>12. ASSUME UNCHANGED vars PROVE CallsTyped'
  BY <1>1, <1>12 DEF vars
<1>13. ASSUME Next PROVE CallsTyped'
  BY <1>1, <1>4, <1>5, <1>8, <1>9, <1>10, <1>11, <1>13
     DEF Next, ClearAccess, ClearRefresh, StartRun, EndRun, AccessExpires, TokenDies
<1> QED
  BY <1>12, <1>13

LEMMA RowsGrow ==
    ASSUME Consistent, Next
    PROVE  /\ tokens' \in Seq(TokenRow)
           /\ Len(tokens) \in Nat /\ Len(tokens') \in Nat /\ Len(tokens') >= Len(tokens)
<1>0. TypeOK /\ LoginNamed /\ NewTokensUnshared /\ Len(tokens) \in Nat
  BY LenProperties DEF Consistent, TypeOK
<1>1. CASE UNCHANGED tokens
  BY <1>0, <1>1 DEF TypeOK
<1>2. CASE LoginGranted
  BY <1>0, <1>2, GrantedRows
<1>3. ASSUME NEW c \in Calls, RefreshServed(c)
      PROVE  tokens' \in Seq(TokenRow) /\ Len(tokens') = Len(tokens) + 1
  BY <1>0, <1>3, RefreshedRows
<1>4. ASSUME NEW t \in 1..Len(tokens), TokenDies(t)
      PROVE  tokens' \in Seq(TokenRow) /\ Len(tokens') = Len(tokens)
  BY <1>0, <1>4, DeadRows
<1> QED
  BY <1>0, <1>1, <1>2, <1>3, <1>4, RowsChange

LEMMA TypedStep == Consistent /\ [Next]_vars => TypeOK'
<1> SUFFICES ASSUME Consistent, [Next]_vars PROVE TypeOK'
  OBVIOUS
<1>1. CASE UNCHANGED vars
  BY <1>1 DEF Consistent, TypeOK, vars, store, phone
<1>2. CASE Next
  <2> DEFINE Phone == /\ shown \in Users \union {None}
                      /\ access \in AccessToken \union {None}
                      /\ refresh \in 0..Len(tokens)
                      /\ lost \subseteq 1..Len(tokens)
  <2>1. TypeOK /\ NewTokensUnshared /\ Phone /\ leaving \in BOOLEAN /\ running \in BOOLEAN
    BY DEF Consistent, TypeOK
  <2>2. calls' \in [Calls -> CallState]
    BY CallsTypedStep DEF CallsTyped
  <2>3. /\ tokens' \in Seq(TokenRow)
        /\ Len(tokens) \in Nat /\ Len(tokens') \in Nat /\ Len(tokens') >= Len(tokens)
    BY <1>2, RowsGrow
  <2>4. ASSUME NEW c \in Calls
        PROVE  /\ calls[c].user \in Users \union {None}
               /\ calls[c].carried \in AccessToken \union {None}
               /\ InFlight(c) => calls[c].token \in 1..Len(tokens)
               /\ InFlight(c) => tokens[calls[c].token].user \in Users
    <3>1. /\ calls[c].user \in Users \union {None}
          /\ calls[c].carried \in AccessToken \union {None}
      BY <2>1, CallFields DEF TypeOK
    <3>2. ASSUME InFlight(c) PROVE calls[c].token \in 1..Len(tokens)
      BY <2>1, <3>2 DEF NewTokensUnshared
    <3>3. ASSUME InFlight(c) PROVE tokens[calls[c].token].user \in Users
      <4>1. tokens[calls[c].token] \in TokenRow
        BY <2>1, <3>2, <3>3, ElementOfSeq DEF TypeOK
      <4> QED
        BY <4>1 DEF TokenRow
    <3> QED
      BY <3>1, <3>2, <3>3
  <2>5. Phone'
    <3>1. CASE UNCHANGED <<shown, access, refresh, lost>>
      BY <2>1, <2>3, <3>1
    <3>2. CASE ClearAccess \/ ClearRefresh
      <4>1. tokens' = tokens /\ lost' = lost
        BY <3>2 DEF ClearAccess, ClearRefresh
      <4>2. /\ shown' \in {shown, None} /\ access' \in {access, None}
            /\ refresh' \in {refresh, 0}
        BY <3>2 DEF ClearAccess, ClearRefresh
      <4> QED
        BY <2>1, <2>3, <4>1, <4>2
    <3>7. CASE AccessExpires
      <4>1. access' \in AccessToken
        BY <3>7, AccessTyped DEF AccessExpires, Valid
      <4> QED
        BY <2>1, <2>3, <3>7, <4>1 DEF AccessExpires, phone
    <3>3. ASSUME NEW c \in Calls, PairLost(c) PROVE Phone'
      BY <2>1, <2>3, <2>4, <3>3 DEF PairLost, store, phone, InFlight, At
    <3>4. ASSUME NEW c \in Calls, SaveAccess(c) PROVE Phone'
      <4>1. access' \in AccessToken
        BY <2>4, <3>4, AccessTyped DEF SaveAccess, InFlight, At
      <4> QED
        BY <2>1, <2>3, <3>4, <4>1 DEF SaveAccess, phone
    <3>5. ASSUME NEW c \in Calls, SaveRefresh(c) PROVE Phone'
      <4>1. refresh' \in 1..Len(tokens)
        BY <2>4, <3>5 DEF SaveRefresh, Stored, InFlight, At
      <4>2. shown' \in {shown, calls[c].user}
        BY <3>5 DEF SaveRefresh
      <4>3. tokens' = tokens /\ access' = access /\ lost' = lost
        BY <3>5 DEF SaveRefresh
      <4> QED
        BY <2>1, <2>3, <2>4, <4>1, <4>2, <4>3
    <3>6. CASE AppKilled
      BY <2>1, <2>3, <2>4, <3>6 DEF AppKilled, store, InFlight, At
    <3> QED
      BY <1>2, <3>1, <3>2, <3>3, <3>4, <3>5, <3>6, <3>7
         DEF Next, StartLogin, StartRun, StartSync, EndRun, SyncStep, SyncAccepted,
             SyncUnauthorised, LoginStep, LoginGranted, LoginRefused, TokenStep,
             RefreshServed, RefreshRefused, CallFails, TokenDies, store, phone
  <2>6. leaving' \in BOOLEAN /\ running' \in BOOLEAN
    BY <1>2, <2>1 DEF Next, phone, StartLogin, ClearAccess, ClearRefresh, StartRun,
        StartSync, EndRun, SyncStep, SyncAccepted, SyncUnauthorised, LoginStep, LoginGranted, LoginRefused, TokenStep,
        RefreshServed, RefreshRefused, SaveAccess, SaveRefresh, CallFails, PairLost,
        AccessExpires, AppKilled, TokenDies
  <2> QED
    BY <2>2, <2>3, <2>5, <2>6 DEF TypeOK
<1> QED
  BY <1>1, <1>2

-----------------------------------------------------------------------------
LEMMA SharedStep == Consistent /\ [Next]_vars => NewTokensUnshared'
<1> SUFFICES ASSUME Consistent, [Next]_vars PROVE NewTokensUnshared'
  OBVIOUS
<1>r. ASSUME NEW c \in Calls, RefreshServed(c)
      PROVE  /\ Len(tokens') = Len(tokens) + 1 /\ refresh' = refresh
             /\ \A i \in 1..Len(tokens) \ {calls[c].token} : tokens'[i] = tokens[i]
             /\ tokens'[Len(tokens) + 1].state = "live"
  <2> DEFINE t == calls[c].token
  <2>1. t = calls[c].token
    OBVIOUS
  <2>2. refresh' = refresh
    BY <1>r DEF RefreshServed, store
  <2>3. TypeOK /\ NewTokensUnshared
    BY DEF Consistent
  <2> HIDE DEF t
  <2>4. /\ Len(tokens') = Len(tokens) + 1
        /\ \A i \in 1..Len(tokens) \ {t} : tokens'[i] = tokens[i]
        /\ tokens'[Len(tokens) + 1].state = "live"
    BY <1>r, <2>1, <2>3, RefreshedRows
  <2> QED
    BY <2>1, <2>2, <2>4
<1> USE DEF NewTokensUnshared, InFlight, At
<1>0. /\ TypeOK /\ LoginNamed /\ NewTokensUnshared
      /\ calls \in [Calls -> CallState] /\ Len(tokens) \in Nat
      /\ refresh \in 0..Len(tokens)
  BY LenProperties DEF Consistent, TypeOK
<1>1. CASE UNCHANGED <<tokens, refresh, calls>>
  BY <1>0, <1>1
\* A call that holds no refresh token disturbs nothing.
<1>2. ASSUME NEW c \in Calls, calls'[c].at \in {"idle", "ask"},
             \A d \in Calls \ {c} : calls'[d] = calls[d],
             tokens' = tokens, refresh' = refresh
      PROVE  NewTokensUnshared'
  BY <1>0, <1>2
<1>3. ASSUME NEW c \in Calls, Ends(c), UNCHANGED <<tokens, refresh>>
      PROVE  NewTokensUnshared'
  <2>1. calls' = [calls EXCEPT ![c] = IdleCall] /\ IdleCall.at = "idle"
    BY <1>3 DEF Ends, Becomes, IdleCall
  <2>2. calls'[c].at = "idle" /\ \A d \in Calls \ {c} : calls'[d] = calls[d]
    BY <1>0, <2>1
  <2> HIDE DEF NewTokensUnshared
  <2> QED
    BY <1>2, <1>3, <2>2
<1>4. ASSUME NEW c \in Calls, Unauthorised(c), UNCHANGED <<tokens, refresh>>
      PROVE  NewTokensUnshared'
  <2>1. CASE calls[c].retrying \/ refresh = 0
    <3>1. Ends(c)
      BY <1>4, <2>1 DEF Unauthorised
    <3> HIDE DEF NewTokensUnshared
    <3> QED
      BY <1>3, <1>4, <3>1
  <2>2. CASE ~(calls[c].retrying \/ refresh = 0)
    <3>1. Moves(c, "refresh", refresh, FALSE)
      BY <1>4, <2>2 DEF Unauthorised
    <3>2. /\ calls'[c].at = "refresh" /\ calls'[c].token = refresh
          /\ \A d \in Calls \ {c} : calls'[d] = calls[d]
      BY <1>0, <3>1 DEF Moves, Becomes, Call
    <3> QED
      BY <1>0, <1>4, <2>2, <3>2
  <2> QED
    BY <2>1, <2>2
<1>5. ASSUME NEW c \in Calls, SaveAccess(c) PROVE NewTokensUnshared'
  <2>1. /\ calls'[c].at = "half" /\ calls'[c].token = calls[c].token
        /\ \A d \in Calls \ {c} : calls'[d] = calls[d]
    BY <1>0, <1>5 DEF SaveAccess, Moves, Becomes, Call
  <2>2. tokens' = tokens /\ refresh' = refresh /\ calls[c].at = "renewed"
    BY <1>5 DEF SaveAccess
  <2> QED
    BY <1>0, <2>1, <2>2
<1>6. ASSUME NEW c \in Calls, SaveRefresh(c) PROVE NewTokensUnshared'
  <2>1. /\ calls'[c].at \in {"idle", "ask"}
        /\ \A d \in Calls \ {c} : calls'[d] = calls[d]
    <3>1. CASE calls[c].grant
      BY <1>0, <1>6, <3>1 DEF SaveRefresh, Ends, Becomes, IdleCall
    <3>2. CASE ~calls[c].grant
      BY <1>0, <1>6, <3>2 DEF SaveRefresh, Becomes, Call
    <3> QED
      BY <3>1, <3>2
  <2>2. tokens' = tokens /\ refresh' = calls[c].token /\ calls[c].at = "half"
    BY <1>6 DEF SaveRefresh, Stored
  <2> QED
    BY <1>0, <2>1, <2>2
<1>7. CASE LoginGranted
  <2>1. /\ calls'["login"].at = "renewed" /\ calls'["login"].token = Len(tokens) + 1
        /\ \A d \in Calls \ {"login"} : calls'[d] = calls[d]
    BY <1>0, <1>7 DEF LoginGranted, Moves, Becomes, Call, Calls
  <2>2. /\ Len(tokens') = Len(tokens) + 1 /\ refresh' = refresh
        /\ \A i \in 1..Len(tokens) : tokens'[i] = tokens[i]
        /\ tokens'[Len(tokens) + 1].state = "live"
    BY <1>0, <1>7, GrantedRows DEF LoginGranted, store
  <2> QED
    BY <1>0, <2>1, <2>2
<1>8. ASSUME NEW c \in Calls, RefreshServed(c) PROVE NewTokensUnshared'
  <2>1. /\ calls[c].at = "refresh"
        /\ calls'[c].at = "renewed" /\ calls'[c].token = Len(tokens) + 1
        /\ \A d \in Calls \ {c} : calls'[d] = calls[d]
    BY <1>0, <1>8 DEF RefreshServed, Moves, Becomes, Call
  <2>2. /\ Len(tokens') = Len(tokens) + 1 /\ refresh' = refresh
        /\ \A i \in 1..Len(tokens) \ {calls[c].token} : tokens'[i] = tokens[i]
        /\ tokens'[Len(tokens) + 1].state = "live"
    BY <1>8, <1>r
  <2> QED
    BY <1>0, <2>1, <2>2
<1>9. ASSUME NEW t \in 1..Len(tokens), TokenDies(t) PROVE NewTokensUnshared'
  <2>1. calls' = calls /\ refresh' = refresh
    BY <1>9 DEF TokenDies, store
  <2>2. /\ Len(tokens') = Len(tokens)
        /\ \A i \in 1..Len(tokens) : tokens'[i] = tokens[i] \/ tokens'[i].state = "dead"
    BY <1>0, <1>9, DeadRows
  <2> QED
    BY <1>0, <2>1, <2>2
<1>10. CASE ClearRefresh
  BY <1>0, <1>10 DEF ClearRefresh
<1>11. CASE AppKilled
  BY <1>11 DEF AppKilled, IdleCall
<1>12. CASE StartSync
  <2> DEFINE x == Call("ask", FALSE, None, access, 0, FALSE)
  <2>1. x.at = "ask"
    BY DEF Call
  <2>2. calls' = [calls EXCEPT !["sync"] = x] /\ tokens' = tokens /\ refresh' = refresh
    BY <1>12 DEF StartSync, Becomes, store
  <2>3. "sync" \in Calls
    BY DEF Calls
  <2> HIDE DEF x
  <2>4. /\ calls'["sync"].at = "ask"
        /\ \A d \in Calls \ {"sync"} : calls'[d] = calls[d]
    BY <1>0, <2>1, <2>2, <2>3
  <2> HIDE DEF NewTokensUnshared
  <2> QED
    BY <1>2, <2>2, <2>3, <2>4
<1>17. ASSUME NEW u \in Users, StartLogin(u) PROVE NewTokensUnshared'
  <2> DEFINE x == Call("ask", FALSE, u, None, 0, FALSE)
  <2>1. x.at = "ask"
    BY DEF Call
  <2>2. calls' = [calls EXCEPT !["login"] = x] /\ tokens' = tokens /\ refresh' = refresh
    BY <1>17 DEF StartLogin, Becomes, store
  <2>3. "login" \in Calls
    BY DEF Calls
  <2> HIDE DEF x
  <2>4. /\ calls'["login"].at = "ask"
        /\ \A d \in Calls \ {"login"} : calls'[d] = calls[d]
    BY <1>0, <2>1, <2>2, <2>3
  <2> HIDE DEF NewTokensUnshared
  <2> QED
    BY <1>2, <2>2, <2>3, <2>4
<1> HIDE DEF NewTokensUnshared, InFlight, At
<1>13. CASE SyncStep \/ LoginRefused
  BY <1>3, <1>4, <1>13 DEF SyncStep, SyncAccepted, SyncUnauthorised, LoginRefused,
                           Calls, store
<1>14. ASSUME NEW c \in Calls, RefreshRefused(c) \/ CallFails(c) \/ PairLost(c)
       PROVE  NewTokensUnshared'
  BY <1>3, <1>14 DEF RefreshRefused, CallFails, PairLost, store
<1>15. CASE UNCHANGED vars
  BY <1>1, <1>15 DEF vars, store
<1>16. CASE Next
  BY <1>1, <1>5, <1>6, <1>7, <1>8, <1>9, <1>10, <1>11, <1>12, <1>13, <1>14, <1>16, <1>17
     DEF Next, ClearAccess, StartRun, EndRun, AccessExpires, LoginStep, TokenStep, store
<1> QED
  BY <1>15, <1>16

LEMMA HeldStep == Consistent /\ [Next]_vars => HeldTokenWorks'
<1> SUFFICES ASSUME Consistent, [Next]_vars PROVE HeldTokenWorks'
  OBVIOUS
<1>0. /\ TypeOK /\ LoginNamed /\ NewTokensUnshared /\ HeldTokenWorks
      /\ calls \in [Calls -> CallState] /\ Len(tokens) \in Nat
      /\ refresh \in 0..Len(tokens)
  BY LenProperties DEF Consistent, TypeOK
<1> DEFINE
      Kept(c) == InFlight(c) =>
          \/ calls'[c].at \in {"renewed", "half"} /\ calls'[c].token = calls[c].token
          \/ calls[c].token \in lost'
\* What explains a spent token goes on explaining it.
<1>1. ASSUME refresh' = refresh, lost \subseteq lost',
             Len(tokens') \in Nat, Len(tokens') >= Len(tokens),
             refresh # 0 /\ tokens'[refresh].state = "spent" => tokens[refresh].state = "spent",
             \A i \in 1..Len(tokens) : tokens'[i].parent = tokens[i].parent,
             \A c \in Calls : Kept(c)
      PROVE  HeldTokenWorks'
  BY <1>0, <1>1 DEF HeldTokenWorks, UnderWay, InFlight
<1>2. ASSUME refresh' = refresh, tokens' = tokens, lost \subseteq lost',
             \A c \in Calls : Kept(c)
      PROVE  HeldTokenWorks'
  BY <1>0, <1>1, <1>2
<1>3. ASSUME refresh' = refresh, tokens' = tokens, lost' = lost, NEW c \in Calls,
             ~InFlight(c), \A d \in Calls \ {c} : calls'[d] = calls[d]
      PROVE  HeldTokenWorks'
  <2>1. \A d \in Calls : Kept(d)
    BY <1>3 DEF InFlight
  <2> QED
    BY <1>2, <1>3, <2>1
<1>4. ASSUME refresh' = refresh, tokens' = tokens, lost' = lost, NEW c \in Calls,
             At(c, "ask") \/ At(c, "refresh"), Ends(c) \/ Unauthorised(c)
      PROVE  HeldTokenWorks'
  <2>1. \A d \in Calls \ {c} : calls'[d] = calls[d]
    BY <1>0, <1>4 DEF Ends, Unauthorised, Moves, Becomes
  <2>2. ~InFlight(c)
    BY <1>4 DEF InFlight, At
  <2> HIDE DEF Kept
  <2> QED
    BY <1>3, <1>4, <2>1, <2>2
<1>5. CASE UNCHANGED vars
  <2>1. \A d \in Calls : Kept(d)
    BY <1>5 DEF vars, InFlight
  <2> QED
    BY <1>2, <1>5, <2>1 DEF vars, store
<1>6. CASE StartSync \/ \E u \in Users : StartLogin(u)
  <2>1. PICK c \in Calls : /\ calls[c].at = "idle"
                           /\ \A d \in Calls \ {c} : calls'[d] = calls[d]
    BY <1>0, <1>6 DEF StartSync, StartLogin, Becomes, Busy, Calls
  <2>2. refresh' = refresh /\ tokens' = tokens /\ lost' = lost
    BY <1>6 DEF StartSync, StartLogin, store
  <2>3. ~InFlight(c)
    BY <2>1 DEF InFlight
  <2> HIDE DEF Kept
  <2> QED
    BY <1>3, <2>1, <2>2, <2>3
<1>7. CASE SyncStep \/ LoginRefused
  BY <1>4, <1>7 DEF SyncStep, SyncAccepted, SyncUnauthorised, LoginRefused, Calls,
                    store
<1>8. ASSUME NEW c \in Calls, RefreshRefused(c) \/ CallFails(c) PROVE HeldTokenWorks'
  BY <1>4, <1>8 DEF RefreshRefused, CallFails, store
<1>9. ASSUME UNCHANGED <<tokens, refresh, calls, lost>> PROVE HeldTokenWorks'
  <2>1. \A d \in Calls : Kept(d)
    BY <1>9 DEF InFlight
  <2> QED
    BY <1>2, <1>9, <2>1
<1>10. CASE ClearRefresh
  BY <1>10 DEF ClearRefresh, HeldTokenWorks
<1>11. ASSUME NEW c \in Calls, PairLost(c) PROVE HeldTokenWorks'
  <2>1. /\ refresh' = refresh /\ tokens' = tokens
        /\ lost' = lost \union {calls[c].token}
        /\ \A d \in Calls \ {c} : calls'[d] = calls[d]
    BY <1>0, <1>11 DEF PairLost, Ends, Becomes, store
  <2>2. \A d \in Calls : Kept(d)
    BY <2>1 DEF InFlight
  <2> QED
    BY <1>2, <2>1, <2>2
<1>12. ASSUME NEW c \in Calls, SaveAccess(c) PROVE HeldTokenWorks'
  <2>1. /\ refresh' = refresh /\ tokens' = tokens /\ lost' = lost
        /\ \A d \in Calls \ {c} : calls'[d] = calls[d]
        /\ calls'[c].at = "half" /\ calls'[c].token = calls[c].token
    BY <1>0, <1>12 DEF SaveAccess, Moves, Becomes, Call
  <2>2. \A d \in Calls : Kept(d)
    BY <2>1 DEF InFlight
  <2> QED
    BY <1>2, <2>1, <2>2
<1>13. ASSUME NEW c \in Calls, SaveRefresh(c) PROVE HeldTokenWorks'
  <2>1. refresh' = calls[c].token /\ tokens' = tokens /\ InFlight(c)
    BY <1>13 DEF SaveRefresh, Stored, InFlight, At
  <2> QED
    BY <1>0, <2>1 DEF NewTokensUnshared, HeldTokenWorks
<1>14. CASE LoginGranted
  <2>1. /\ refresh' = refresh /\ lost' = lost /\ Len(tokens') = Len(tokens) + 1
        /\ \A i \in 1..Len(tokens) : tokens'[i] = tokens[i]
    BY <1>0, <1>14, GrantedRows DEF LoginGranted, store
  <2>2. \A d \in Calls \ {"login"} : calls'[d] = calls[d]
    BY <1>0, <1>14 DEF LoginGranted, Moves, Becomes
  <2>3. \A d \in Calls : Kept(d)
    BY <1>14, <2>2 DEF InFlight, LoginGranted, At
  <2> HIDE DEF Kept
  <2> QED
    BY <1>0, <1>1, <2>1, <2>3
<1>15. ASSUME NEW t \in 1..Len(tokens), TokenDies(t) PROVE HeldTokenWorks'
  <2>1. /\ refresh' = refresh /\ lost' = lost /\ Len(tokens') = Len(tokens)
        /\ \A i \in 1..Len(tokens) \ {t} : tokens'[i] = tokens[i]
        /\ tokens'[t].state = "dead" /\ tokens'[t].parent = tokens[t].parent
    BY <1>0, <1>15, DeadRows DEF TokenDies, store
  <2>2. \A d \in Calls : Kept(d)
    BY <1>15 DEF InFlight, TokenDies
  <2> HIDE DEF Kept
  <2> QED
    BY <1>0, <1>1, <2>1, <2>2
<1>16. CASE AppKilled
  <2>1. /\ refresh' = refresh /\ tokens' = tokens /\ lost \subseteq lost'
    BY <1>16 DEF AppKilled, store
  <2>2. \A d \in Calls : Kept(d)
    BY <1>16 DEF AppKilled, InFlight, At
  <2> HIDE DEF Kept
  <2> QED
    BY <1>2, <2>1, <2>2
<1>17. ASSUME NEW c \in Calls, RefreshServed(c) PROVE HeldTokenWorks'
  <2> DEFINE t == calls[c].token
  <2>1. /\ refresh' = refresh /\ lost' = lost /\ calls[c].at = "refresh"
        /\ \A d \in Calls \ {c} : calls'[d] = calls[d]
        /\ calls'[c].at = "renewed" /\ calls'[c].token = Len(tokens) + 1
    BY <1>0, <1>17 DEF RefreshServed, At, Moves, Becomes, Call, store
  <2>2. t = calls[c].token
    OBVIOUS
  <2> HIDE DEF t, Kept
  <2>3. /\ t \in 1..Len(tokens) /\ Len(tokens') = Len(tokens) + 1
        /\ \A i \in 1..Len(tokens) \ {t} : tokens'[i] = tokens[i]
        /\ tokens'[t].parent = tokens[t].parent
        /\ tokens'[Len(tokens) + 1].parent = t
    BY <1>0, <1>17, <2>2, RefreshedRows
  <2>4. CASE refresh = t
    BY <1>0, <2>1, <2>3, <2>4 DEF HeldTokenWorks, UnderWay
  <2>5. CASE refresh # t
    <3>1. \A d \in Calls : Kept(d)
      BY <2>1 DEF Kept, InFlight
    <3> QED
      BY <1>0, <1>1, <2>1, <2>3, <2>5, <3>1
  <2> QED
    BY <2>4, <2>5
<1> HIDE DEF Kept
<1>18. CASE Next
  BY <1>6, <1>7, <1>8, <1>9, <1>10, <1>11, <1>12, <1>13, <1>14, <1>15, <1>16, <1>17, <1>18
     DEF Next, ClearAccess, StartRun, EndRun, AccessExpires, LoginStep, TokenStep, store
<1> QED
  BY <1>5, <1>18

-----------------------------------------------------------------------------
LEMMA StepConsistent == Consistent /\ [Next]_vars => Consistent'
  BY TypedStep, CallsTypedStep, ChainsStep, SharedStep, HeldStep
     DEF Consistent, CallsTyped

LEMMA AlwaysConsistent == Spec => []Consistent
  BY InitConsistent, StepConsistent, PTL DEF Spec

(***************************************************************************)
(* Type correctness of the tokens, the phone's store and its calls.        *)
(***************************************************************************)
THEOREM TypeCorrect == Spec => []TypeOK
<1>1. Consistent => TypeOK
  BY DEF Consistent
<1> QED
  BY <1>1, AlwaysConsistent, PTL

(***************************************************************************)
(* However many calls present a refresh token, and whatever is lost or     *)
(* killed, rotateRefreshToken leaves one usable token per sign-in.         *)
(***************************************************************************)
THEOREM OneLive == Spec => []OneLivePerChain
<1>1. Consistent => OneLivePerChain
  BY DEF Consistent
<1> QED
  BY <1>1, AlwaysConsistent, PTL

(***************************************************************************)
(* The phone holds a spent refresh token only while the next one is under  *)
(* way to its store, or because that one was lost: the order of its calls, *)
(* sign-ins and sign-outs cannot do it.                                    *)
(***************************************************************************)
THEOREM HeldWorks == Spec => []HeldTokenWorks
<1>1. Consistent => HeldTokenWorks
  BY DEF Consistent
<1> QED
  BY <1>1, AlwaysConsistent, PTL

-----------------------------------------------------------------------------
(***************************************************************************)
(* The budget of login attempts.  First, attempts in a window: every set   *)
(* of numbers has a least one, so the first attempt within a window is     *)
(* there to be found.                                                      *)
(***************************************************************************)
\* Every set of natural numbers has a least one.
LEMMA LeastExists ==
  ASSUME NEW T \in SUBSET Nat, T # {}
  PROVE  \E m \in T : \A n \in T : m <= n
<1> DEFINE U == {1..n : n \in T}
<1>1. ASSUME NEW n \in T PROVE 1..n \in FiniteSubsetsOf(Nat)
  <2>1. IsFiniteSet(1..n)
    BY FS_Interval
  <2> QED
    BY <2>1 DEF FiniteSubsetsOf
<1>2. U \subseteq FiniteSubsetsOf(Nat) /\ U # {}
  BY <1>1
<1>3. PICK u \in U : \A v \in U : <<v, u>> \notin StrictSubsetOrdering(Nat)
  <2> HIDE DEF U
  <2> QED
    BY <1>2, FS_StrictSubsetOrderingWellFounded, WFMin
<1>4. PICK m \in T : u = 1..m
  OBVIOUS
<1>5. ASSUME NEW n \in T PROVE m <= n
  <2>0. <<1..n, 1..m>> \notin StrictSubsetOrdering(Nat)
    BY <1>3, <1>4
  <2>1. ~(1..n \subseteq 1..m /\ 1..n # 1..m)
    BY <2>0 DEF StrictSubsetOrdering
  <2>2. SUFFICES ASSUME n < m PROVE FALSE
    OBVIOUS
  <2>3. m \in 1..m /\ m \notin 1..n
    BY <2>2
  <2> QED
    BY <2>1, <2>2, <2>3
<1> QED
  BY <1>5

-----------------------------------------------------------------------------
\* Attempts in the order they were made.
InOrder(s) == \A i, j \in 1..Len(s) : i <= j => s[i] <= s[j]

LEMMA TimesAreNumbers == Times \subseteq Nat /\ Window \in Nat \ {0}
  BY LimiterAssumption DEF Times

LEMMA AttemptsAreTimes ==
  ASSUME NEW s \in Seq(Times)
  PROVE  Len(s) \in Nat /\ \A j \in 1..Len(s) : s[j] \in Times /\ s[j] \in Nat
<1>1. Len(s) \in Nat /\ \A j \in 1..Len(s) : s[j] \in Times
  OBVIOUS
<1> QED
  BY <1>1, TimesAreNumbers

LEMMA FirstWithinIs ==
  ASSUME NEW s \in Seq(Times), InOrder(s), NEW t \in Nat
  PROVE  /\ FirstWithin(s, t) \in 1..Len(s) + 1
         /\ \A j \in 1..Len(s) : t - s[j] < Window <=> FirstWithin(s, t) <= j
<1> DEFINE T == {i \in 1..Len(s) + 1 : \A j \in 1..Len(s) : i <= j => t - s[j] < Window}
<1>0. Len(s) \in Nat /\ \A j \in 1..Len(s) : s[j] \in Nat
  BY AttemptsAreTimes, TimesAreNumbers
<1>1. T \in SUBSET Nat /\ T # {}
  <2>1. Len(s) + 1 \in T
    BY <1>0
  <2> QED
    BY <1>0, <2>1
<1>2. PICK m \in T : \A n \in T : m <= n
  <2> HIDE DEF T
  <2> QED
    BY <1>1, LeastExists
<1>3. ASSUME NEW j \in 1..Len(s) PROVE t - s[j] < Window <=> m <= j
  <2>1. ASSUME t - s[j] < Window PROVE j \in T
    <3> SUFFICES ASSUME NEW i \in 1..Len(s), j <= i PROVE t - s[i] < Window
      BY <1>0
    <3>1. s[j] <= s[i]
      BY DEF InOrder
    <3> QED
      BY <1>0, <2>1, <3>1, TimesAreNumbers
  <2> QED
    BY <1>2, <2>1
<1>4. m \in 1..Len(s) + 1
  OBVIOUS
<1> QED
  BY <1>3, <1>4 DEF FirstWithin

LEMMA FirstWithinUnique ==
  ASSUME NEW s \in Seq(Times), InOrder(s), NEW t \in Nat,
         NEW m \in 1..Len(s) + 1,
         \A j \in 1..Len(s) : t - s[j] < Window <=> m <= j
  PROVE  FirstWithin(s, t) = m
<1>1. /\ FirstWithin(s, t) \in 1..Len(s) + 1
      /\ \A j \in 1..Len(s) : t - s[j] < Window <=> FirstWithin(s, t) <= j
  BY FirstWithinIs
<1> HIDE DEF FirstWithin
<1>2. Len(s) \in Nat
  OBVIOUS
<1>3. CASE FirstWithin(s, t) < m
  BY <1>1, <1>2, <1>3
<1>4. CASE m < FirstWithin(s, t)
  BY <1>1, <1>2, <1>4
<1> QED
  BY <1>1, <1>2, <1>3, <1>4

LEMMA WithinIs ==
  ASSUME NEW s \in Seq(Times), InOrder(s), NEW t \in Nat
  PROVE  /\ WithinWindow(s, t) \in Seq(Times)
         /\ Len(WithinWindow(s, t)) = Len(s) - FirstWithin(s, t) + 1
         /\ \A i \in 1..Len(WithinWindow(s, t)) :
               /\ WithinWindow(s, t)[i] = s[FirstWithin(s, t) + i - 1]
               /\ FirstWithin(s, t) + i - 1 \in 1..Len(s)
               /\ t - WithinWindow(s, t)[i] < Window
         /\ InOrder(WithinWindow(s, t))
<1> DEFINE f == FirstWithin(s, t)
           w == WithinWindow(s, t)
<1>1. f \in 1..Len(s) + 1 /\ \A j \in 1..Len(s) : t - s[j] < Window <=> f <= j
  BY FirstWithinIs
<1>2. Len(s) \in Nat /\ \A j \in 1..Len(s) : s[j] \in Times
  OBVIOUS
<1>3. w = SubSeq(s, f, Len(s))
  BY DEF WithinWindow
<1> HIDE DEF w, f
<1>4. /\ w \in Seq(Times)
      /\ Len(w) = Len(s) - f + 1
      /\ \A i \in 1..Len(s) - f + 1 : w[i] = s[f + i - 1]
  <2>1. f \in Int /\ Len(s) \in Int /\ \A j \in f..Len(s) : s[j] \in Times
    BY <1>1, <1>2
  <2>2. /\ SubSeq(s, f, Len(s)) \in Seq(Times)
        /\ Len(SubSeq(s, f, Len(s))) = IF f <= Len(s) THEN Len(s) - f + 1 ELSE 0
        /\ \A i \in 1..Len(s) - f + 1 : SubSeq(s, f, Len(s))[i] = s[f + i - 1]
    BY <2>1, SubSeqProperties
  <2> QED
    BY <1>1, <1>2, <1>3, <2>2
<1>5. ASSUME NEW i \in 1..Len(w)
      PROVE  w[i] = s[f + i - 1] /\ f + i - 1 \in 1..Len(s) /\ t - w[i] < Window
  BY <1>1, <1>2, <1>4
<1>6. InOrder(w)
  <2> SUFFICES ASSUME NEW i \in 1..Len(w), NEW j \in 1..Len(w), i <= j PROVE w[i] <= w[j]
    BY DEF InOrder
  <2> QED
    BY <1>1, <1>2, <1>4, <1>5 DEF InOrder
<1> QED
  BY <1>4, <1>5, <1>6 DEF w, f

\* What is within the window later was within it before.
LEMMA FirstWithinGrows ==
  ASSUME NEW s \in Seq(Times), InOrder(s), NEW t \in Nat, NEW u \in Nat, t <= u
  PROVE  FirstWithin(s, t) <= FirstWithin(s, u)
<1>1. /\ FirstWithin(s, t) \in 1..Len(s) + 1 /\ FirstWithin(s, u) \in 1..Len(s) + 1
      /\ \A j \in 1..Len(s) : t - s[j] < Window <=> FirstWithin(s, t) <= j
      /\ \A j \in 1..Len(s) : u - s[j] < Window <=> FirstWithin(s, u) <= j
  BY FirstWithinIs
<1>2. Len(s) \in Nat /\ \A j \in 1..Len(s) : s[j] \in Nat
  BY AttemptsAreTimes, TimesAreNumbers
<1>3. CASE FirstWithin(s, u) = Len(s) + 1
  BY <1>1, <1>2, <1>3
<1>4. CASE FirstWithin(s, u) \in 1..Len(s)
  <2>1. u - s[FirstWithin(s, u)] < Window
    BY <1>1, <1>4
  <2>2. t - s[FirstWithin(s, u)] < Window
    BY <1>2, <1>4, <2>1, TimesAreNumbers
  <2> QED
    BY <1>1, <1>4, <2>2
<1> QED
  BY <1>1, <1>2, <1>3, <1>4

LEMMA WithinTwice ==
  ASSUME NEW s \in Seq(Times), InOrder(s), NEW t \in Nat, NEW u \in Nat, t <= u
  PROVE  WithinWindow(WithinWindow(s, t), u) = WithinWindow(s, u)
<1> DEFINE w == WithinWindow(s, t)
           f == FirstWithin(s, t)
           g == FirstWithin(s, u)
<1>1. /\ w \in Seq(Times) /\ InOrder(w) /\ Len(w) = Len(s) - f + 1
      /\ \A i \in 1..Len(w) : w[i] = s[f + i - 1] /\ f + i - 1 \in 1..Len(s)
  BY WithinIs
<1>2. /\ f \in 1..Len(s) + 1 /\ g \in 1..Len(s) + 1 /\ Len(s) \in Nat
      /\ \A j \in 1..Len(s) : u - s[j] < Window <=> g <= j
  BY FirstWithinIs
<1>3. f <= g
  BY FirstWithinGrows
<1> DEFINE v == WithinWindow(s, u)
           x == WithinWindow(w, u)
<1>4. /\ v \in Seq(Times) /\ Len(v) = Len(s) - g + 1
      /\ \A i \in 1..Len(v) : v[i] = s[g + i - 1]
  BY WithinIs
<1>5. /\ x \in Seq(Times) /\ Len(x) = Len(w) - FirstWithin(w, u) + 1
      /\ \A i \in 1..Len(x) : x[i] = w[FirstWithin(w, u) + i - 1]
  <2> HIDE DEF w
  <2> QED
    BY <1>1, WithinIs
<1> HIDE DEF w, f, g, v, x
<1>6. g - f + 1 \in 1..Len(w) + 1
  BY <1>1, <1>2, <1>3
<1>7. \A j \in 1..Len(w) : u - w[j] < Window <=> g - f + 1 <= j
  BY <1>1, <1>2, <1>3
<1>8. FirstWithin(w, u) = g - f + 1
  BY <1>1, <1>6, <1>7, FirstWithinUnique
<1>9. Len(x) = Len(v) /\ \A i \in 1..Len(x) : x[i] = v[i]
  BY <1>1, <1>2, <1>3, <1>4, <1>5, <1>8
<1>10. x = v
  BY <1>4, <1>5, <1>9, SeqEqual
<1> QED
  BY <1>10 DEF x, v, w

LEMMA WithinShrinks ==
  ASSUME NEW s \in Seq(Times), InOrder(s), NEW t \in Nat, NEW u \in Nat, t <= u
  PROVE  Len(WithinWindow(s, u)) <= Len(WithinWindow(s, t))
<1>1. /\ Len(WithinWindow(s, t)) = Len(s) - FirstWithin(s, t) + 1
      /\ Len(WithinWindow(s, u)) = Len(s) - FirstWithin(s, u) + 1
  BY WithinIs
<1>2. FirstWithin(s, t) \in 1..Len(s) + 1 /\ FirstWithin(s, u) \in 1..Len(s) + 1
  BY FirstWithinIs
<1> QED
  BY <1>1, <1>2, FirstWithinGrows

\* Pruning at whatever time leaves no more in the window.
LEMMA PrunedHasNoMore ==
  ASSUME NEW s \in Seq(Times), InOrder(s), NEW t \in Nat, NEW u \in Nat
  PROVE  Len(WithinWindow(WithinWindow(s, t), u)) <= Len(WithinWindow(s, u))
<1> DEFINE w == WithinWindow(s, t)
<1>1. w \in Seq(Times) /\ InOrder(w)
  BY WithinIs
<1>2. CASE t <= u
  <2>1. WithinWindow(w, u) = WithinWindow(s, u)
    BY <1>2, WithinTwice
  <2>2. Len(WithinWindow(s, u)) \in Nat
    BY WithinIs
  <2> QED
    BY <2>1, <2>2
<1>3. CASE u < t
  <2>1. Len(w) <= Len(WithinWindow(s, u)) /\ Len(WithinWindow(s, u)) \in Nat
    BY <1>3, WithinShrinks, WithinIs
  <2> HIDE DEF w
  <2>2. Len(WithinWindow(w, u)) = Len(w) - FirstWithin(w, u) + 1
    BY <1>1, WithinIs
  <2>3. FirstWithin(w, u) \in 1..Len(w) + 1 /\ Len(w) \in Nat
    BY <1>1, FirstWithinIs, AttemptsAreTimes
  <2>4. Len(WithinWindow(w, u)) <= Len(WithinWindow(s, u))
    BY <2>1, <2>2, <2>3
  <2> QED
    BY <2>4 DEF w
<1> QED
  BY <1>2, <1>3

LEMMA WithinOfNone ==
  ASSUME NEW t \in Nat
  PROVE  <<>> \in Seq(Times) /\ InOrder(<<>>) /\ WithinWindow(<<>>, t) = <<>>
<1>1. <<>> \in Seq(Times) /\ Len(<<>>) = 0
  BY EmptySeq
<1>2. InOrder(<<>>)
  BY <1>1 DEF InOrder
<1>3. /\ WithinWindow(<<>>, t) \in Seq(Times)
      /\ Len(WithinWindow(<<>>, t)) = Len(<<>>) - FirstWithin(<<>>, t) + 1
      /\ FirstWithin(<<>>, t) \in 1..Len(<<>>) + 1
  BY <1>1, <1>2, WithinIs, FirstWithinIs
<1>4. Len(WithinWindow(<<>>, t)) = 0
  BY <1>1, <1>3
<1> QED
  BY <1>1, <1>2, <1>3, <1>4, EmptySeq

\* An attempt now joins those in the window.
LEMMA WithinAppend ==
  ASSUME NEW s \in Seq(Times), InOrder(s), NEW t \in Times,
         \A i \in 1..Len(s) : s[i] <= t
  PROVE  /\ Append(s, t) \in Seq(Times) /\ InOrder(Append(s, t))
         /\ Append(s, t) # <<>>
         /\ \A i \in 1..Len(Append(s, t)) : Append(s, t)[i] <= t
         /\ WithinWindow(Append(s, t), t) = Append(WithinWindow(s, t), t)
<1> DEFINE a == Append(s, t)
           f == FirstWithin(s, t)
           w == WithinWindow(s, t)
<1>0. t \in Nat /\ Len(s) \in Nat /\ \A j \in 1..Len(s) : s[j] \in Nat
  BY AttemptsAreTimes, TimesAreNumbers
<1>1. /\ a \in Seq(Times) /\ Len(a) = Len(s) + 1 /\ a[Len(s) + 1] = t
      /\ \A i \in 1..Len(s) : a[i] = s[i]
  OBVIOUS
<1>2. f \in 1..Len(s) + 1 /\ \A j \in 1..Len(s) : t - s[j] < Window <=> f <= j
  BY <1>0, FirstWithinIs
<1>3. /\ w \in Seq(Times) /\ Len(w) = Len(s) - f + 1
      /\ \A i \in 1..Len(w) : w[i] = s[f + i - 1] /\ f + i - 1 \in 1..Len(s)
  BY <1>0, WithinIs
<1> DEFINE y == Append(w, t)
<1>4. /\ y \in Seq(Times) /\ Len(y) = Len(w) + 1 /\ y[Len(w) + 1] = t
      /\ \A i \in 1..Len(w) : y[i] = w[i]
  BY <1>3
<1> HIDE DEF a, f, w, y
<1>5. InOrder(a) /\ \A i \in 1..Len(a) : a[i] <= t
  <2>1. \A i \in 1..Len(a) : a[i] <= t
    BY <1>0, <1>1
  <2>2. ASSUME NEW i \in 1..Len(a), NEW j \in 1..Len(a), i <= j PROVE a[i] <= a[j]
    BY <1>0, <1>1, <2>1, <2>2 DEF InOrder
  <2> QED
    BY <2>1, <2>2 DEF InOrder
<1>6. f \in 1..Len(a) + 1 /\ \A j \in 1..Len(a) : t - a[j] < Window <=> f <= j
  BY <1>0, <1>1, <1>2, TimesAreNumbers
<1>7. FirstWithin(a, t) = f
  BY <1>0, <1>1, <1>5, <1>6, FirstWithinUnique
<1>8. /\ WithinWindow(a, t) \in Seq(Times) /\ Len(WithinWindow(a, t)) = Len(a) - f + 1
      /\ \A i \in 1..Len(WithinWindow(a, t)) : WithinWindow(a, t)[i] = a[f + i - 1]
  BY <1>0, <1>1, <1>5, <1>7, WithinIs
<1>9. Len(y) = Len(WithinWindow(a, t)) /\ \A i \in 1..Len(y) : y[i] = WithinWindow(a, t)[i]
  <2>1. Len(y) = Len(WithinWindow(a, t)) /\ Len(w) \in Nat
    BY <1>0, <1>1, <1>2, <1>3, <1>4, <1>8
  <2>2. ASSUME NEW i \in 1..Len(y) PROVE y[i] = WithinWindow(a, t)[i]
    <3>1. CASE i \in 1..Len(w)
      BY <1>0, <1>1, <1>2, <1>3, <1>4, <1>8, <2>1, <3>1
    <3>2. CASE i = Len(w) + 1
      <4>1. f + i - 1 = Len(s) + 1 /\ i \in 1..Len(WithinWindow(a, t))
        BY <1>0, <1>2, <1>3, <2>1, <3>2
      <4> QED
        BY <1>1, <1>4, <1>8, <3>2, <4>1
    <3> QED
      BY <1>4, <2>1, <3>1, <3>2
  <2> QED
    BY <2>1, <2>2
<1>10. WithinWindow(a, t) = y
  BY <1>4, <1>8, <1>9, SeqEqual
<1>11. a # <<>>
  BY <1>0, <1>1, EmptySeq
<1> QED
  BY <1>1, <1>5, <1>10, <1>11 DEF a, y, w

LEMMA WithinAll ==
  ASSUME NEW s \in Seq(Times), InOrder(s), NEW t \in Nat,
         \A i \in 1..Len(s) : t - s[i] < Window
  PROVE  WithinWindow(s, t) = s
<1>1. Len(s) \in Nat
  OBVIOUS
<1>2. 1 \in 1..Len(s) + 1 /\ \A j \in 1..Len(s) : t - s[j] < Window <=> 1 <= j
  BY <1>1
<1>3. FirstWithin(s, t) = 1
  BY <1>2, FirstWithinUnique
<1> QED
  BY <1>3, SubSeqFull DEF WithinWindow

LEMMA WithinDropsTheFirst ==
  ASSUME NEW s \in Seq(Times), InOrder(s), NEW t \in Nat,
         1 <= Len(s), ~(t - s[1] < Window)
  PROVE  Len(WithinWindow(s, t)) < Len(s)
<1>1. Len(s) \in Nat
  OBVIOUS
<1>2. FirstWithin(s, t) \in 1..Len(s) + 1 /\ (t - s[1] < Window <=> FirstWithin(s, t) <= 1)
  BY <1>1, FirstWithinIs
<1>3. Len(WithinWindow(s, t)) = Len(s) - FirstWithin(s, t) + 1
  BY WithinIs
<1> QED
  BY <1>1, <1>2, <1>3

LEMMA WithinHas ==
  ASSUME NEW s \in Seq(Times), InOrder(s), NEW t \in Nat,
         NEW j \in 1..Len(s), t - s[j] < Window
  PROVE  \E i \in 1..Len(WithinWindow(s, t)) : WithinWindow(s, t)[i] = s[j]
<1>1. Len(s) \in Nat
  OBVIOUS
<1>2. FirstWithin(s, t) \in 1..Len(s) + 1 /\ FirstWithin(s, t) <= j
  BY FirstWithinIs
<1>3. /\ Len(WithinWindow(s, t)) = Len(s) - FirstWithin(s, t) + 1
      /\ \A i \in 1..Len(WithinWindow(s, t)) :
            WithinWindow(s, t)[i] = s[FirstWithin(s, t) + i - 1]
  BY WithinIs
<1>4. j - FirstWithin(s, t) + 1 \in 1..Len(WithinWindow(s, t))
  BY <1>1, <1>2, <1>3
<1>5. FirstWithin(s, t) + (j - FirstWithin(s, t) + 1) - 1 = j
  BY <1>1, <1>2
<1> QED
  BY <1>3, <1>4, <1>5

-----------------------------------------------------------------------------
\* Attempts made up to now, in order.
InTime(s, t) == s \in Seq(Times) /\ InOrder(s) /\ \A i \in 1..Len(s) : s[i] <= t

\* What a key's attempts s count is what it was charged, sp, unless evicted;
\* no more than that in any case, and no more than it is allowed.
CountFits(s, sp, gone, t, max) ==
    /\ ~gone => WithinWindow(s, t) = sp
    /\ \A i \in 1..Len(WithinWindow(s, t)) :
          \E j \in 1..Len(sp) : sp[j] = WithinWindow(s, t)[i]
    /\ Len(WithinWindow(s, t)) <= max

\* By the end of the wait an attempt has left the window; up to a second
\* before it none has.
WaitFits(s, sp, gone, wait, t, max) ==
    /\ Len(WithinWindow(s, wait)) < max
    /\ \A u \in Nat : t <= u /\ u + Second <= wait =>
          /\ ~gone => max <= Len(WithinWindow(s, u))
          /\ WithinWindow(sp, u) # <<>>

KeyFits(s, sp, gone, wait, t, max) ==
    /\ InTime(s, t) /\ InTime(sp, t)
    /\ CountFits(s, sp, gone, t, max)
    /\ wait # 0 => WaitFits(s, sp, gone, wait, t, max)

LEMMA PrunedInTime ==
  ASSUME NEW s, NEW t \in Times, InTime(s, t), NEW u \in Nat
  PROVE  InTime(WithinWindow(s, u), t)
<1>1. s \in Seq(Times) /\ InOrder(s) /\ \A i \in 1..Len(s) : s[i] <= t
  BY DEF InTime
<1> QED
  BY <1>1, WithinIs DEF InTime

\* A key left alone, or pruned by the sweep.
LEMMA KeptFits ==
  ASSUME NEW s, NEW sp, NEW gone, NEW wait \in Nat, NEW t \in Times, NEW max \in Nat,
         KeyFits(s, sp, gone, wait, t, max), NEW r \in {s, WithinWindow(s, t)}
  PROVE  KeyFits(r, sp, gone, wait, t, max)
<1> SUFFICES ASSUME r = WithinWindow(s, t) PROVE KeyFits(r, sp, gone, wait, t, max)
  OBVIOUS
<1>1. t \in Nat /\ s \in Seq(Times) /\ InOrder(s)
  BY TimesAreNumbers DEF KeyFits, InTime
<1>2. InTime(r, t)
  BY <1>1, PrunedInTime DEF KeyFits
<1>3. WithinWindow(r, t) = WithinWindow(s, t)
  BY <1>1, WithinTwice
<1>4. ASSUME wait # 0 PROVE WaitFits(r, sp, gone, wait, t, max)
  <2>1. WaitFits(s, sp, gone, wait, t, max)
    BY <1>4 DEF KeyFits
  <2>2. Len(WithinWindow(r, wait)) <= Len(WithinWindow(s, wait))
    BY <1>1, PrunedHasNoMore
  <2>3. Len(WithinWindow(r, wait)) \in Nat /\ Len(WithinWindow(s, wait)) \in Nat
    <3>1. WithinWindow(s, wait) \in Seq(Times) /\ WithinWindow(r, wait) \in Seq(Times)
      BY <1>1, <1>2, WithinIs DEF InTime
    <3> QED
      BY <3>1
  <2>4. Len(WithinWindow(r, wait)) < max
    BY <2>1, <2>2, <2>3 DEF WaitFits
  <2>5. \A u \in Nat : t <= u => WithinWindow(r, u) = WithinWindow(s, u)
    BY <1>1, WithinTwice
  <2> QED
    BY <2>1, <2>4, <2>5 DEF WaitFits
<1> QED
  BY <1>2, <1>3, <1>4 DEF KeyFits, CountFits

\* A key evicted.
LEMMA EvictedFits ==
  ASSUME NEW s, NEW sp, NEW gone, NEW wait \in Nat, NEW t \in Times, NEW max \in Nat \ {0},
         KeyFits(s, sp, gone, wait, t, max)
  PROVE  KeyFits(<<>>, sp, TRUE, wait, t, max)
<1>1. t \in Nat
  BY TimesAreNumbers
<1>2. /\ <<>> \in Seq(Times) /\ InOrder(<<>>) /\ Len(<<>>) = 0
      /\ \A u \in Nat : WithinWindow(<<>>, u) = <<>>
  BY WithinOfNone, EmptySeq
<1>3. InTime(<<>>, t)
  BY <1>2 DEF InTime
<1>4. CountFits(<<>>, sp, TRUE, t, max)
  BY <1>1, <1>2 DEF CountFits
<1>5. wait # 0 => WaitFits(<<>>, sp, TRUE, wait, t, max)
  BY <1>2 DEF KeyFits, WaitFits
<1> QED
  BY <1>3, <1>4, <1>5 DEF KeyFits

\* A key cleared by a success, or by a restart.
LEMMA ClearedFits ==
  ASSUME NEW t \in Times, NEW max \in Nat \ {0}
  PROVE  KeyFits(<<>>, <<>>, FALSE, 0, t, max)
<1>1. t \in Nat
  BY TimesAreNumbers
<1>2. /\ <<>> \in Seq(Times) /\ InOrder(<<>>) /\ Len(<<>>) = 0
      /\ WithinWindow(<<>>, t) = <<>>
  BY <1>1, WithinOfNone, EmptySeq
<1> QED
  BY <1>2 DEF KeyFits, InTime, CountFits

\* A key charged for an attempt within its budget.
LEMMA ChargedFits ==
  ASSUME NEW s, NEW sp, NEW gone, NEW wait \in Nat, NEW t \in Times, NEW max \in Nat,
         KeyFits(s, sp, gone, wait, t, max),
         Len(WithinWindow(s, t)) < max
  PROVE  KeyFits(Append(WithinWindow(s, t), t), Append(sp, t), gone, 0, t, max)
<1> DEFINE w == WithinWindow(s, t)
           r == Append(w, t)
<1>1. t \in Nat /\ s \in Seq(Times) /\ InOrder(s) /\ sp \in Seq(Times) /\ InOrder(sp)
  BY TimesAreNumbers DEF KeyFits, InTime
<1>2. InTime(w, t)
  BY <1>1, PrunedInTime DEF KeyFits
<1>3. WithinWindow(w, t) = w
  BY <1>1, WithinTwice
<1>4. InTime(r, t) /\ WithinWindow(r, t) = r
  BY <1>2, <1>3, WithinAppend DEF InTime
<1>5. InTime(Append(sp, t), t)
  BY <1>1, WithinAppend DEF KeyFits, InTime
<1>6. CountFits(s, sp, gone, t, max)
  BY DEF KeyFits
<1>7. w \in Seq(Times)
  BY <1>2 DEF InTime
<1> HIDE DEF w
<1>8. Len(r) <= max
  BY <1>7 DEF w
<1>9. ~gone => r = Append(sp, t)
  BY <1>6 DEF CountFits, w
<1>10. ASSUME NEW i \in 1..Len(r) PROVE \E j \in 1..Len(Append(sp, t)) : Append(sp, t)[j] = r[i]
  <2>1. CASE i \in 1..Len(w)
    <3>1. r[i] = w[i]
      BY <1>7, <2>1
    <3>2. PICK j \in 1..Len(sp) : sp[j] = w[i]
      BY <1>6, <2>1 DEF CountFits, w
    <3>3. j \in 1..Len(Append(sp, t)) /\ Append(sp, t)[j] = sp[j]
      BY <1>1
    <3> QED
      BY <3>1, <3>2, <3>3
  <2>2. CASE i = Len(w) + 1
    <3>1. r[i] = t
      BY <1>7, <2>2
    <3>2. Len(sp) + 1 \in 1..Len(Append(sp, t)) /\ Append(sp, t)[Len(sp) + 1] = t
      BY <1>1
    <3> QED
      BY <3>1, <3>2
  <2> QED
    BY <1>7, <2>1, <2>2
<1>11. CountFits(r, Append(sp, t), gone, t, max)
  <2> HIDE DEF r
  <2> QED
    BY <1>4, <1>8, <1>9, <1>10 DEF CountFits
<1> QED
  BY <1>4, <1>5, <1>11 DEF KeyFits, w

LEMMA CeilBounds ==
  ASSUME NEW a \in Nat, NEW b \in Nat \ {0}
  PROVE  Ceil(a, b) \in Nat /\ a <= Ceil(a, b) * b /\ Ceil(a, b) * b < a + b
  BY DEF Ceil

\* The wait named lasts until the oldest attempt leaves the window, and less
\* than a second longer.
LEMMA RetryAfterBounds ==
  ASSUME now \in Nat, NEW oldest \in Nat, oldest <= now, now - oldest < Window
  PROVE  /\ RetryAfter(oldest) \in Nat
         /\ now + RetryAfter(oldest) * Second \in Nat \ {0}
         /\ oldest + Window <= now + RetryAfter(oldest) * Second
         /\ now + RetryAfter(oldest) * Second < oldest + Window + Second
<1> DEFINE a == Window - (now - oldest)
           c == Ceil(a, Second)
<1>1. Window \in Nat \ {0} /\ Second \in Nat \ {0}
  BY LimiterAssumption
<1>2. a \in Nat \ {0} /\ now + a = oldest + Window
  BY <1>1
<1>3. c \in Nat /\ a <= c * Second /\ c * Second < a + Second
  <2> HIDE DEF a
  <2> QED
    BY <1>1, <1>2, CeilBounds
<1>4. c # 0
  <2> HIDE DEF a, c
  <2> SUFFICES ASSUME c = 0 PROVE FALSE
    OBVIOUS
  <2>1. c * Second = 0
    BY <1>1
  <2> QED
    BY <1>2, <1>3, <2>1
<1>5. RetryAfter(oldest) = c
  <2>1. RetryAfter(oldest) = IF c < 1 THEN 1 ELSE c
    BY DEF RetryAfter
  <2> HIDE DEF a, c
  <2> QED
    BY <1>3, <1>4, <2>1
<1> HIDE DEF a, c
<1>6. c * Second \in Nat
  BY <1>1, <1>3
<1> DEFINE p == c * Second
<1>7. p \in Nat /\ a <= p /\ p < a + Second
  BY <1>3, <1>6
<1>8. now + RetryAfter(oldest) * Second = now + p
  BY <1>5
<1> HIDE DEF p
<1> QED
  BY <1>1, <1>2, <1>3, <1>5, <1>7, <1>8

\* A key refused: its wait ends when its oldest attempt leaves the window.
LEMMA RefusedFits ==
  ASSUME NEW s, NEW sp, NEW gone, NEW wait \in Nat, NEW max \in Nat \ {0}, now \in Times,
         KeyFits(s, sp, gone, wait, now, max),
         max <= Len(WithinWindow(s, now))
  PROVE  LET end == now + RetryAfter(WithinWindow(s, now)[1]) * Second
         IN  end \in Nat /\ KeyFits(WithinWindow(s, now), sp, gone, end, now, max)
<1> DEFINE w == WithinWindow(s, now)
           end == now + RetryAfter(w[1]) * Second
<1>1. now \in Nat /\ s \in Seq(Times) /\ InOrder(s) /\ sp \in Seq(Times) /\ InOrder(sp)
  BY TimesAreNumbers DEF KeyFits, InTime
<1>2. /\ w \in Seq(Times) /\ InOrder(w)
      /\ \A i \in 1..Len(w) : now - w[i] < Window /\ w[i] <= now
  BY <1>1, PrunedInTime, WithinIs DEF InTime, KeyFits
<1>3. WithinWindow(w, now) = w
  BY <1>1, WithinTwice
<1>4. /\ ~gone => w = sp
      /\ \A i \in 1..Len(w) : \E j \in 1..Len(sp) : sp[j] = w[i]
      /\ Len(w) <= max
  BY DEF KeyFits, CountFits
<1> HIDE DEF w
<1>5. Len(w) \in Nat /\ \A i \in 1..Len(w) : w[i] \in Nat
  BY <1>2, AttemptsAreTimes
<1>6. Len(w) = max /\ 1 \in 1..Len(w)
  BY <1>4, <1>5 DEF w
<1>7. w[1] \in Nat /\ w[1] <= now /\ now - w[1] < Window
  BY <1>2, <1>5, <1>6
<1>8. end \in Nat \ {0} /\ w[1] + Window <= end /\ end < w[1] + Window + Second
  BY <1>1, <1>7, RetryAfterBounds
<1> HIDE DEF end
<1>9. Window \in Nat \ {0} /\ Second \in Nat \ {0}
  BY LimiterAssumption
<1>10. Len(WithinWindow(w, end)) < max
  <2>1. 1 <= Len(w) /\ ~(end - w[1] < Window)
    BY <1>6, <1>7, <1>8, <1>9
  <2> QED
    BY <1>2, <1>6, <1>8, <2>1, WithinDropsTheFirst
<1>11. ASSUME NEW u \in Nat, now <= u, u + Second <= end
       PROVE  max <= Len(WithinWindow(w, u)) /\ WithinWindow(sp, u) # <<>>
  <2>1. u - w[1] < Window
    BY <1>7, <1>8, <1>9, <1>11
  <2>2. ASSUME NEW i \in 1..Len(w) PROVE u - w[i] < Window
    <3>1. w[1] <= w[i] /\ w[i] \in Nat
      BY <1>2, <1>5, <1>6, <2>2 DEF InOrder
    <3> QED
      BY <1>7, <1>9, <2>1, <3>1
  <2>3. WithinWindow(w, u) = w
    BY <1>2, <2>2, WithinAll
  <2>4. PICK j \in 1..Len(sp) : sp[j] = w[1]
    BY <1>4, <1>6
  <2>5. PICK i \in 1..Len(WithinWindow(sp, u)) : WithinWindow(sp, u)[i] = sp[j]
    BY <1>1, <2>1, <2>4, WithinHas
  <2>6. WithinWindow(sp, u) # <<>>
    BY <2>5, EmptySeq
  <2> QED
    BY <1>5, <1>6, <2>3, <2>6
<1>12. InTime(w, now)
  BY <1>2 DEF InTime
<1>13. CountFits(w, sp, gone, now, max)
  BY <1>3, <1>4 DEF CountFits
<1>14. WaitFits(w, sp, gone, end, now, max)
  BY <1>10, <1>11 DEF WaitFits
<1>15. KeyFits(w, sp, gone, end, now, max)
  BY <1>12, <1>13, <1>14 DEF KeyFits
<1> QED
  BY <1>8, <1>15 DEF end, w

\* A tick passes; what leaves the window leaves both the count and the charge.
LEMMA TickedFits ==
  ASSUME NEW s, NEW sp, NEW gone, NEW wait \in Nat, NEW t \in Times, NEW max \in Nat,
         t + 1 \in Times, KeyFits(s, sp, gone, wait, t, max)
  PROVE  LET left == WithinWindow(sp, t + 1)
         IN  KeyFits(s, left, gone /\ left # <<>>, wait, t + 1, max)
<1> DEFINE n == t + 1
           left == WithinWindow(sp, n)
           w == WithinWindow(s, n)
           still == gone /\ left # <<>>
<1>1. t \in Nat /\ n \in Nat /\ n \in Times /\ t <= n
  BY TimesAreNumbers
<1>2. s \in Seq(Times) /\ InOrder(s) /\ sp \in Seq(Times) /\ InOrder(sp)
  BY DEF KeyFits, InTime
<1>3. InTime(s, n) /\ InTime(sp, n)
  <2>1. /\ \A i \in 1..Len(s) : s[i] <= t /\ s[i] \in Nat
        /\ \A i \in 1..Len(sp) : sp[i] <= t /\ sp[i] \in Nat
    BY <1>2, AttemptsAreTimes DEF KeyFits, InTime
  <2> QED
    BY <1>1, <1>2, <2>1 DEF InTime
<1>4. InTime(left, n)
  BY <1>1, <1>3, PrunedInTime
<1>5. CountFits(s, sp, gone, t, max)
  BY DEF KeyFits
<1>6. WithinWindow(WithinWindow(s, t), n) = w
  BY <1>1, <1>2, WithinTwice
<1>7. WithinWindow(s, t) \in Seq(Times) /\ InOrder(WithinWindow(s, t))
  BY <1>1, <1>2, WithinIs
<1>8. /\ w \in Seq(Times)
      /\ \A i \in 1..Len(w) : n - w[i] < Window
      /\ \A i \in 1..Len(w) : \E j \in 1..Len(WithinWindow(s, t)) : WithinWindow(s, t)[j] = w[i]
  <2>1. w \in Seq(Times) /\ \A i \in 1..Len(w) : n - w[i] < Window
    BY <1>1, <1>2, WithinIs
  <2> DEFINE v == WithinWindow(s, t)
  <2> HIDE DEF v
  <2>2. v \in Seq(Times) /\ InOrder(v) /\ WithinWindow(v, n) = w
    BY <1>6, <1>7 DEF v
  <2>3. \A i \in 1..Len(WithinWindow(v, n)) :
           /\ WithinWindow(v, n)[i] = v[FirstWithin(v, n) + i - 1]
           /\ FirstWithin(v, n) + i - 1 \in 1..Len(v)
    BY <1>1, <2>2, WithinIs
  <2>4. \A i \in 1..Len(w) : \E j \in 1..Len(v) : v[j] = w[i]
    BY <2>2, <2>3
  <2> QED
    BY <2>1, <2>4 DEF v
<1> HIDE DEF w, n, left
<1>9. ASSUME NEW i \in 1..Len(w) PROVE \E j \in 1..Len(left) : left[j] = w[i]
  <2>1. PICK j \in 1..Len(WithinWindow(s, t)) : WithinWindow(s, t)[j] = w[i]
    BY <1>8
  <2>2. PICK k \in 1..Len(sp) : sp[k] = w[i]
    BY <1>5, <2>1 DEF CountFits
  <2>3. n - sp[k] < Window
    BY <1>8, <2>2
  <2>4. \E m \in 1..Len(WithinWindow(sp, n)) : WithinWindow(sp, n)[m] = sp[k]
    BY <1>1, <1>2, <2>3, WithinHas
  <2> QED
    BY <2>2, <2>4 DEF left
<1>10. ~gone => w = left
  BY <1>5, <1>6 DEF CountFits, left
<1>11. left = <<>> => w = left
  <2> SUFFICES ASSUME left = <<>> PROVE w = <<>>
    OBVIOUS
  <2>1. Len(left) = 0
    BY EmptySeq
  <2>2. 1 \notin 1..Len(w)
    BY <1>9, <2>1
  <2>3. Len(w) = 0
    BY <1>8, <2>2
  <2> QED
    BY <1>8, <2>3, EmptySeq
<1>12. Len(w) <= max
  <2>1. Len(w) <= Len(WithinWindow(s, t)) /\ Len(WithinWindow(s, t)) <= max
    BY <1>1, <1>2, <1>5, WithinShrinks DEF CountFits, w
  <2>2. Len(w) \in Nat /\ Len(WithinWindow(s, t)) \in Nat
    BY <1>7, <1>8
  <2> QED
    BY <2>1, <2>2
<1>13. CountFits(s, left, still, n, max)
  BY <1>9, <1>10, <1>11, <1>12 DEF CountFits, w
<1>14. ASSUME wait # 0 PROVE WaitFits(s, left, still, wait, n, max)
  <2>1. WaitFits(s, sp, gone, wait, t, max)
    BY <1>14 DEF KeyFits
  <2>2. ASSUME NEW u \in Nat, n <= u, u + Second <= wait
        PROVE  (~still => max <= Len(WithinWindow(s, u))) /\ WithinWindow(left, u) # <<>>
    <3>1. t <= u
      BY <1>1, <2>2
    <3>2. (~gone => max <= Len(WithinWindow(s, u))) /\ WithinWindow(sp, u) # <<>>
      BY <2>1, <2>2, <3>1 DEF WaitFits
    <3>3. WithinWindow(left, u) = WithinWindow(sp, u)
      BY <1>1, <1>2, <2>2, WithinTwice DEF left
    <3>4. left # <<>>
      BY <3>2, <3>3, WithinOfNone
    <3> QED
      BY <3>2, <3>3, <3>4
  <2> QED
    BY <2>1, <2>2 DEF WaitFits
<1>15. KeyFits(s, left, still, wait, n, max)
  BY <1>3, <1>4, <1>13, <1>14 DEF KeyFits
<1> QED
  BY <1>15 DEF n, left

-----------------------------------------------------------------------------
\* A key that is not in the Map has no place in its order.
OrderFits(l) ==
    \A k \in Keys : l.at[k] = <<>> => l.younger[k] = {} /\ \A j \in Keys : k \notin l.younger[j]

\* A limiter whose attempts were made up to now.
LimiterFits(l) ==
    /\ l \in Limiter
    /\ OrderFits(l)
    /\ \A k \in Keys : InTime(l.at[k], now)

LEMMA LimiterFields ==
  ASSUME NEW l \in Limiter
  PROVE  /\ l.at \in [Keys -> Seq(Times)]
         /\ l.younger \in [Keys -> SUBSET Keys]
         /\ l.lastSweep \in Times
  BY DEF Limiter

LEMMA ForgetIs ==
  ASSUME NEW l \in Limiter, NEW gone,
         \A k \in Keys \ gone : l.at[k] = <<>> =>
            l.younger[k] = {} /\ \A j \in Keys : k \notin l.younger[j]
  PROVE  /\ Forget(l, gone) \in Limiter
         /\ OrderFits(Forget(l, gone))
         /\ Forget(l, gone).at = [k \in Keys |-> IF k \in gone THEN <<>> ELSE l.at[k]]
<1> DEFINE at == [k \in Keys |-> IF k \in gone THEN <<>> ELSE l.at[k]]
           younger == [k \in Keys |-> IF k \in gone THEN {} ELSE l.younger[k] \ gone]
           f == Forget(l, gone)
<1>1. /\ l.at \in [Keys -> Seq(Times)] /\ l.younger \in [Keys -> SUBSET Keys]
      /\ l.lastSweep \in Times
  BY LimiterFields
<1>2. at \in [Keys -> Seq(Times)]
  BY <1>1, EmptySeq
<1>3. younger \in [Keys -> SUBSET Keys]
  BY <1>1
<1>4. f = [at |-> at, younger |-> younger, lastSweep |-> l.lastSweep]
  <2>1. f = [l EXCEPT !.at = at, !.younger = younger]
    BY DEF Forget
  <2> HIDE DEF at, younger, f
  <2> QED
    BY <2>1 DEF Limiter
<1>5. f \in Limiter
  <2> HIDE DEF at, younger, f
  <2> QED
    BY <1>1, <1>2, <1>3, <1>4 DEF Limiter
<1>6. f.at = at /\ f.younger = younger
  BY <1>4
<1> HIDE DEF f
<1>7. OrderFits(f)
  BY <1>6 DEF OrderFits
<1> QED
  BY <1>5, <1>6, <1>7 DEF f

LEMMA PutIs ==
  ASSUME NEW l \in Limiter, OrderFits(l), NEW k \in Keys,
         NEW attempts \in Seq(Times), attempts # <<>>
  PROVE  /\ Put(l, k, attempts) \in Limiter
         /\ OrderFits(Put(l, k, attempts))
         /\ Put(l, k, attempts).at = [l.at EXCEPT ![k] = attempts]
         /\ l.at[k] = <<>> => Put(l, k, attempts).younger[k] = {}
<1> DEFINE at == [l.at EXCEPT ![k] = attempts]
           younger == [j \in Keys |-> IF l.at[k] = <<>> /\ j \in Tracked(l)
                                      THEN l.younger[j] \union {k} ELSE l.younger[j]]
           p == Put(l, k, attempts)
<1>1. /\ l.at \in [Keys -> Seq(Times)] /\ l.younger \in [Keys -> SUBSET Keys]
      /\ l.lastSweep \in Times
  BY LimiterFields
<1>2. at \in [Keys -> Seq(Times)] /\ younger \in [Keys -> SUBSET Keys]
  BY <1>1
<1>3. p = [at |-> at, younger |-> younger, lastSweep |-> l.lastSweep]
  <2>1. p = [l EXCEPT !.at[k] = attempts, !.younger = younger]
    BY DEF Put
  <2>2. [l EXCEPT !.at[k] = attempts] = [l EXCEPT !.at = at]
    BY DEF Limiter
  <2>3. p = [l EXCEPT !.at = at, !.younger = younger]
    BY <2>1, <2>2
  <2> HIDE DEF at, younger, p
  <2> QED
    BY <2>3 DEF Limiter
<1>4. p \in Limiter
  <2> HIDE DEF at, younger, p
  <2> QED
    BY <1>1, <1>2, <1>3 DEF Limiter
<1>5. p.at = at /\ p.younger = younger
  BY <1>3
<1> HIDE DEF p
<1>6. OrderFits(p)
  BY <1>1, <1>5 DEF OrderFits, Tracked
<1>7. l.at[k] = <<>> => p.younger[k] = {}
  BY <1>1, <1>5 DEF OrderFits, Tracked
<1> QED
  BY <1>4, <1>5, <1>6, <1>7 DEF p

\* The sweep leaves a key its attempts, or those in the window.
LEMMA SweepIs ==
  ASSUME NEW l, LimiterFits(l), now \in Times
  PROVE  /\ LimiterFits(Sweep(l))
         /\ \A k \in Keys : Sweep(l).at[k] \in {l.at[k], WithinWindow(l.at[k], now)}
<1> DEFINE alive == [k \in Keys |-> WithinWindow(l.at[k], now)]
           gone == {k \in Keys : alive[k] = <<>>}
           m == [l EXCEPT !.at = alive]
           f == Forget(m, gone)
<1>1. now \in Nat
  BY TimesAreNumbers
<1>2. l \in Limiter /\ \A k \in Keys : InTime(l.at[k], now)
  BY DEF LimiterFits
<1>3. /\ l.at \in [Keys -> Seq(Times)] /\ l.younger \in [Keys -> SUBSET Keys]
      /\ l.lastSweep \in Times
  BY <1>2, LimiterFields
<1>4. CASE now - l.lastSweep < Window
  BY <1>4 DEF Sweep
<1>5. CASE ~(now - l.lastSweep < Window)
  <2>1. \A k \in Keys : InTime(alive[k], now)
    BY <1>1, <1>2, PrunedInTime
  <2>2. alive \in [Keys -> Seq(Times)]
    BY <2>1 DEF InTime
  <2> HIDE DEF alive
  <2>3. m \in Limiter /\ m.at = alive
    BY <1>2, <2>2 DEF Limiter
  <2> HIDE DEF m
  <2>4. \A k \in Keys \ gone : m.at[k] # <<>>
    BY <2>3
  <2>5. /\ f \in Limiter /\ OrderFits(f)
        /\ f.at = [k \in Keys |-> IF k \in gone THEN <<>> ELSE m.at[k]]
    BY <2>3, <2>4, ForgetIs
  <2>6. \A k \in Keys : f.at[k] = alive[k]
    BY <2>3, <2>5
  <2> HIDE DEF f
  <2> DEFINE r == [f EXCEPT !.lastSweep = now]
  <2>7. r \in Limiter /\ r.at = f.at /\ r.younger = f.younger
    BY <2>5 DEF Limiter
  <2>8. Sweep(l) = r
    BY <1>5 DEF Sweep, f, m, alive
  <2> HIDE DEF r
  <2>9. OrderFits(r) /\ \A k \in Keys : InTime(r.at[k], now)
    BY <2>1, <2>5, <2>6, <2>7 DEF OrderFits
  <2>10. LimiterFits(Sweep(l))
    BY <2>7, <2>8, <2>9 DEF LimiterFits
  <2>11. \A k \in Keys : Sweep(l).at[k] = WithinWindow(l.at[k], now)
    BY <2>6, <2>7, <2>8 DEF alive
  <2> QED
    BY <2>10, <2>11
<1> QED
  BY <1>4, <1>5

\* A key just inserted has none younger: it is not the one to go.
LEMMA EvictIs ==
  ASSUME NEW l, LimiterFits(l), now \in Times
  PROVE  LET e == EvictIfOverCapacity(l) IN
         /\ LimiterFits(e)
         /\ \A k \in Keys : e.at[k] \in {l.at[k], <<>>}
         /\ \A k \in Keys : l.younger[k] = {} => e.at[k] = l.at[k]
<1> DEFINE gone == {k \in Keys : Cardinality(l.younger[k]) >= MaxTracked}
           e == Forget(l, gone)
<1>1. /\ e \in Limiter /\ OrderFits(e)
      /\ e.at = [k \in Keys |-> IF k \in gone THEN <<>> ELSE l.at[k]]
  BY ForgetIs DEF LimiterFits, OrderFits
<1>2. ASSUME NEW k \in Keys, l.younger[k] = {} PROVE k \notin gone
  <2>1. Cardinality({}) = 0 /\ MaxTracked \in Nat \ {0}
    BY FS_EmptySet, LimiterAssumption
  <2> QED
    BY <1>2, <2>1
<1>3. InTime(<<>>, now)
  BY TimesAreNumbers, WithinOfNone, EmptySeq DEF InTime
<1>4. EvictIfOverCapacity(l) = e
  BY DEF EvictIfOverCapacity
<1> HIDE DEF e, gone
<1>5. /\ \A k \in Keys : e.at[k] \in {l.at[k], <<>>}
      /\ \A k \in Keys : l.younger[k] = {} => e.at[k] = l.at[k]
  BY <1>1, <1>2
<1>6. LimiterFits(e)
  BY <1>1, <1>3, <1>5 DEF LimiterFits
<1> QED
  BY <1>4, <1>5, <1>6

LEMMA ResetIs ==
  ASSUME NEW l, LimiterFits(l), now \in Times, NEW k \in Keys
  PROVE  /\ LimiterFits(Reset(l, k))
         /\ Reset(l, k).at = [l.at EXCEPT ![k] = <<>>]
<1>1. /\ Forget(l, {k}) \in Limiter /\ OrderFits(Forget(l, {k}))
      /\ Forget(l, {k}).at = [j \in Keys |-> IF j \in {k} THEN <<>> ELSE l.at[j]]
  BY ForgetIs DEF LimiterFits, OrderFits
<1>2. InTime(<<>>, now)
  BY TimesAreNumbers, WithinOfNone, EmptySeq DEF InTime
<1>3. l.at \in [Keys -> Seq(Times)]
  BY LimiterFields DEF LimiterFits
<1>4. Forget(l, {k}).at = [l.at EXCEPT ![k] = <<>>]
  BY <1>1, <1>3
<1>5. \A j \in Keys : InTime(Forget(l, {k}).at[j], now)
  BY <1>1, <1>2 DEF LimiterFits
<1> QED
  BY <1>1, <1>4, <1>5 DEF LimiterFits, Reset

\* What a check does to the key it is for, and to the others.
LEMMA CheckIs ==
  ASSUME NEW l, LimiterFits(l), now \in Times, NEW k \in Keys, NEW max \in Nat \ {0}
  PROVE  LET c == Check(l, k, max)
             w == WithinWindow(l.at[k], now)
         IN  /\ LimiterFits(c.limiter)
             /\ c.allowed \in BOOLEAN
             /\ c.allowed => Len(w) < max /\ c.limiter.at[k] = Append(w, now)
             /\ ~c.allowed => /\ max <= Len(w)
                              /\ c.limiter.at[k] = w
                              /\ c.retryAfter = RetryAfter(w[1])
                              /\ \A j \in Keys \ {k} :
                                    c.limiter.at[j] \in {l.at[j], WithinWindow(l.at[j], now)}
             /\ \A j \in Keys \ {k} :
                   IF j \in Evicted(l, c.limiter) THEN c.limiter.at[j] = <<>>
                   ELSE c.limiter.at[j] \in {l.at[j], WithinWindow(l.at[j], now)}
<1> DEFINE c == Check(l, k, max)
           w == WithinWindow(l.at[k], now)
           swept == Sweep(l)
           within == WithinWindow(swept.at[k], now)
<1>1. now \in Nat
  BY TimesAreNumbers
<1>2. \A j \in Keys : l.at[j] \in Seq(Times) /\ InOrder(l.at[j]) /\ InTime(l.at[j], now)
  BY DEF LimiterFits, InTime
<1>3. /\ LimiterFits(swept)
      /\ \A j \in Keys : swept.at[j] \in {l.at[j], WithinWindow(l.at[j], now)}
  BY SweepIs
<1>4. within = w
  BY <1>1, <1>2, <1>3, WithinTwice
<1>5. /\ InTime(w, now) /\ w \in Seq(Times) /\ Len(w) \in Nat /\ InOrder(w)
      /\ \A i \in 1..Len(w) : w[i] <= now
  BY <1>1, <1>2, PrunedInTime, AttemptsAreTimes DEF InTime
<1>6. \A j \in Keys : l.at[j] = <<>> => WithinWindow(l.at[j], now) = <<>>
  BY <1>1, WithinOfNone
<1>7. swept \in Limiter /\ OrderFits(swept) /\ swept.at \in [Keys -> Seq(Times)]
  BY <1>3, LimiterFields DEF LimiterFits
<1>8. CASE max <= Len(w)
  <2>1. w # <<>>
    BY <1>5, <1>8, EmptySeq
  <2> DEFINE p == Put(swept, k, w)
  <2>2. c = [allowed |-> FALSE, retryAfter |-> RetryAfter(w[1]), limiter |-> p]
    <3>1. Len(within) >= max
      BY <1>4, <1>5, <1>8
    <3> QED
      BY <1>4, <3>1 DEF Check
  <2>3. p \in Limiter /\ OrderFits(p) /\ p.at = [swept.at EXCEPT ![k] = w]
    BY <1>5, <1>7, <2>1, PutIs
  <2> HIDE DEF p, c, w
  <2>4. p.at[k] = w /\ \A j \in Keys \ {k} : p.at[j] = swept.at[j]
    BY <1>7, <2>3
  <2>5. LimiterFits(p)
    BY <1>3, <1>5, <2>3, <2>4 DEF LimiterFits
  <2>6. ASSUME NEW j \in Keys \ {k}
        PROVE  /\ p.at[j] \in {l.at[j], WithinWindow(l.at[j], now)}
               /\ j \in Evicted(l, p) => p.at[j] = <<>>
    BY <1>3, <2>4 DEF Evicted, Tracked
  <2> QED
    BY <1>5, <1>8, <2>2, <2>4, <2>5, <2>6 DEF c, w
<1>9. CASE Len(w) < max
  <2> DEFINE a == Append(w, now)
             added == Put(swept, k, a)
             kept == IF swept.at[k] = <<>> THEN EvictIfOverCapacity(added) ELSE added
  <2>1. a \in Seq(Times) /\ a # <<>> /\ InTime(a, now)
    BY <1>5, WithinAppend DEF InTime
  <2>2. c = [allowed |-> TRUE, retryAfter |-> 0, limiter |-> kept]
    <3>1. ~(Len(within) >= max)
      BY <1>4, <1>5, <1>9
    <3> QED
      BY <1>4, <3>1 DEF Check
  <2> HIDE DEF w, a, c
  <2>3. /\ added \in Limiter /\ OrderFits(added)
        /\ added.at = [swept.at EXCEPT ![k] = a]
        /\ swept.at[k] = <<>> => added.younger[k] = {}
    BY <1>7, <2>1, PutIs
  <2> HIDE DEF added
  <2>4. added.at[k] = a /\ \A j \in Keys \ {k} : added.at[j] = swept.at[j]
    BY <1>7, <2>3
  <2>5. LimiterFits(added)
    BY <1>3, <2>1, <2>3, <2>4 DEF LimiterFits
  <2>6. /\ LimiterFits(kept) /\ kept.at[k] = a
        /\ \A j \in Keys \ {k} : kept.at[j] \in {swept.at[j], <<>>}
    <3>1. CASE swept.at[k] = <<>>
      BY <2>3, <2>4, <2>5, <3>1, EvictIs
    <3>2. CASE swept.at[k] # <<>>
      BY <2>4, <2>5, <3>2
    <3> QED
      BY <3>1, <3>2
  <2> HIDE DEF kept, swept
  <2>7. ASSUME NEW j \in Keys \ {k}
        PROVE  IF j \in Evicted(l, kept) THEN kept.at[j] = <<>>
               ELSE kept.at[j] \in {l.at[j], WithinWindow(l.at[j], now)}
    BY <1>3, <1>6, <2>6 DEF Evicted, Tracked
  <2> QED
    BY <1>9, <2>2, <2>6, <2>7 DEF c, w, a
<1> QED
  BY <1>5, <1>8, <1>9

\* Forgetting more keys asks less of them.
LEMMA GoneWeakens ==
  ASSUME NEW s, NEW sp, NEW wait, NEW t, NEW max, NEW j, NEW F, NEW G,
         KeyFits(s, sp, j \in F, wait, t, max), j \in F => j \in G
  PROVE  KeyFits(s, sp, j \in G, wait, t, max)
  BY DEF KeyFits, CountFits, WaitFits

LEMMA OtherKeyFits ==
  ASSUME NEW l, LimiterFits(l), now \in Times, NEW k \in Keys, NEW m \in Nat \ {0},
         NEW j \in Keys \ {k}, NEW sp, NEW wait \in Nat, NEW max \in Nat \ {0},
         NEW F, NEW G, j \in F => j \in G,
         j \in Evicted(l, Check(l, k, m).limiter) => j \in G,
         KeyFits(l.at[j], sp, j \in F, wait, now, max)
  PROVE  KeyFits(Check(l, k, m).limiter.at[j], sp, j \in G, wait, now, max)
<1> DEFINE new == Check(l, k, m).limiter
<1>1. IF j \in Evicted(l, new) THEN new.at[j] = <<>>
      ELSE new.at[j] \in {l.at[j], WithinWindow(l.at[j], now)}
  BY CheckIs
<1> HIDE DEF new
<1>2. CASE j \in Evicted(l, new)
  <2>1. KeyFits(<<>>, sp, TRUE, wait, now, max)
    BY EvictedFits
  <2>2. j \in G
    BY <1>2 DEF new
  <2>3. KeyFits(<<>>, sp, j \in G, wait, now, max)
    BY <2>1, <2>2 DEF KeyFits, CountFits, WaitFits
  <2> QED
    BY <1>1, <1>2, <2>3 DEF new
<1>3. CASE j \notin Evicted(l, new)
  <2>1. KeyFits(new.at[j], sp, j \in F, wait, now, max)
    BY <1>1, <1>3, KeptFits
  <2> QED
    BY <2>1, GoneWeakens DEF new
<1> QED
  BY <1>2, <1>3

LEMMA RefusedKeyFits ==
  ASSUME NEW l, LimiterFits(l), now \in Times, NEW k \in Keys,
         NEW sp, NEW wait \in Nat, NEW max \in Nat \ {0}, NEW F, NEW G, F \subseteq G,
         KeyFits(l.at[k], sp, k \in F, wait, now, max),
         ~Check(l, k, max).allowed
  PROVE  /\ now + Check(l, k, max).retryAfter * Second \in Nat
         /\ KeyFits(Check(l, k, max).limiter.at[k], sp, k \in G,
                    now + Check(l, k, max).retryAfter * Second, now, max)
<1> DEFINE c == Check(l, k, max)
           w == WithinWindow(l.at[k], now)
           end == now + RetryAfter(w[1]) * Second
<1>1. max <= Len(w) /\ c.limiter.at[k] = w /\ c.retryAfter = RetryAfter(w[1])
  BY CheckIs
<1>2. end \in Nat /\ KeyFits(w, sp, k \in F, end, now, max)
  BY <1>1, RefusedFits
<1> HIDE DEF w, c, end
<1>3. KeyFits(w, sp, k \in G, end, now, max)
  BY <1>2, GoneWeakens
<1> QED
  BY <1>1, <1>2, <1>3 DEF c, end

LEMMA ChargedKeyFits ==
  ASSUME NEW l, LimiterFits(l), now \in Times, NEW k \in Keys,
         NEW sp, NEW wait \in Nat, NEW max \in Nat \ {0}, NEW F, NEW G, F \subseteq G,
         KeyFits(l.at[k], sp, k \in F, wait, now, max),
         Check(l, k, max).allowed
  PROVE  KeyFits(Check(l, k, max).limiter.at[k], Append(sp, now), k \in G, 0, now, max)
<1> DEFINE c == Check(l, k, max)
           w == WithinWindow(l.at[k], now)
<1>1. Len(w) < max /\ c.limiter.at[k] = Append(w, now)
  BY CheckIs
<1>2. KeyFits(Append(w, now), Append(sp, now), k \in F, 0, now, max)
  BY <1>1, ChargedFits
<1> HIDE DEF w, c
<1>3. KeyFits(Append(w, now), Append(sp, now), k \in G, 0, now, max)
  BY <1>2, GoneWeakens
<1> QED
  BY <1>1, <1>3 DEF c

-----------------------------------------------------------------------------
BudgetFits(k) ==
    KeyFits(Table(k).at[k], spent[k], k \in forgotten, told[k], now, Max_(k))

LimiterConsistent ==
    /\ LimiterTypeOK
    /\ LimiterFits(byIp) /\ LimiterFits(byId)
    /\ \A k \in Keys : BudgetFits(k)

LEMMA KeysApart ==
  /\ \A k \in Ips : k \in Keys /\ Table(k) = byIp /\ Max_(k) = MaxIp
  /\ \A k \in Ids : k \in Keys /\ k \notin Ips /\ Table(k) = byId /\ Max_(k) = MaxId
  /\ \A k \in Keys : Max_(k) \in Nat \ {0}
  BY LimiterAssumption DEF Keys, Table, Max_

LEMMA EmptyFits ==
  ASSUME now \in Times
  PROVE  /\ LimiterFits(Empty)
         /\ \A k \in Keys : Empty.at[k] = <<>>
         /\ \A k \in Keys : KeyFits(<<>>, <<>>, FALSE, 0, now, Max_(k))
<1>1. Empty \in Limiter /\ \A k \in Keys : Empty.at[k] = <<>> /\ Empty.younger[k] = {}
  <2>1. 0 \in Times
    BY LimiterAssumption DEF Times
  <2>2. [k \in Keys |-> <<>>] \in [Keys -> Seq(Times)]
    BY EmptySeq
  <2>3. [k \in Keys |-> {}] \in [Keys -> SUBSET Keys]
    OBVIOUS
  <2> QED
    BY <2>1, <2>2, <2>3 DEF Empty, Limiter
<1>2. InTime(<<>>, now)
  BY TimesAreNumbers, WithinOfNone, EmptySeq DEF InTime
<1>3. \A k \in Keys : KeyFits(<<>>, <<>>, FALSE, 0, now, Max_(k))
  BY ClearedFits, KeysApart
<1> HIDE DEF Empty
<1> QED
  BY <1>1, <1>2, <1>3 DEF LimiterFits, OrderFits

LEMMA LimiterStarts == LimiterInit => LimiterConsistent
<1> SUFFICES ASSUME LimiterInit PROVE LimiterConsistent
  OBVIOUS
<1>1. now \in Times
  BY LimiterAssumption DEF LimiterInit, Times
<1>2. byIp = Empty /\ byId = Empty /\ forgotten = {}
  BY DEF LimiterInit
<1>3. \A k \in Keys : spent[k] = <<>> /\ told[k] = 0
  BY DEF LimiterInit
<1>4. LimiterFits(byIp) /\ LimiterFits(byId)
  BY <1>1, <1>2, EmptyFits
<1>5. spent \in [Keys -> Seq(Times)] /\ told \in [Keys -> Nat]
  BY EmptySeq DEF LimiterInit
<1>6. LimiterTypeOK
  BY <1>1, <1>2, <1>4, <1>5 DEF LimiterTypeOK, LimiterFits
<1>7. ASSUME NEW k \in Keys PROVE BudgetFits(k)
  <2>1. Table(k).at[k] = <<>>
    BY <1>1, <1>2, EmptyFits DEF Table
  <2>2. KeyFits(<<>>, <<>>, FALSE, 0, now, Max_(k))
    BY <1>1, EmptyFits
  <2>3. (k \in forgotten) = FALSE
    BY <1>2
  <2> QED
    BY <1>3, <2>1, <2>2, <2>3 DEF BudgetFits
<1> QED
  BY <1>4, <1>6, <1>7 DEF LimiterConsistent

LEMMA LimiterRecordTyped ==
  ASSUME LimiterTypeOK, NEW x \in Keys, NEW m \in Nat
  PROVE  /\ [told EXCEPT ![x] = m] \in [Keys -> Nat]
         /\ [told EXCEPT ![x] = m][x] = m
         /\ \A k \in Keys \ {x} : [told EXCEPT ![x] = m][k] = told[k]
         /\ Charge(spent, x) \in [Keys -> Seq(Times)]
         /\ Charge(spent, x)[x] = Append(spent[x], now)
         /\ \A k \in Keys \ {x} : Charge(spent, x)[k] = spent[k]
<1>1. now \in Times /\ spent \in [Keys -> Seq(Times)] /\ told \in [Keys -> Nat]
  BY DEF LimiterTypeOK
<1> QED
  BY <1>1 DEF Charge

LEMMA IpRefusedKeeps ==
  ASSUME LimiterConsistent, NEW ip \in Ips, IpRefused(ip)
  PROVE  LimiterConsistent'
<1> DEFINE c == Check(byIp, ip, MaxIp)
           end == now + c.retryAfter * Second
<1>1. /\ ~c.allowed /\ byIp' = c.limiter
      /\ told' = [told EXCEPT ![ip] = end]
      /\ UNCHANGED <<now, byId, spent, forgotten>>
  BY DEF IpRefused
<1>2. now \in Times /\ LimiterFits(byIp) /\ LimiterFits(byId) /\ LimiterTypeOK
  BY DEF LimiterConsistent, LimiterTypeOK
<1>3. ip \in Keys /\ MaxIp \in Nat \ {0} /\ Max_(ip) = MaxIp /\ Table(ip) = byIp
  BY KeysApart
<1>4. \A k \in Keys : BudgetFits(k) /\ told[k] \in Nat
  BY DEF LimiterConsistent, LimiterTypeOK
<1>5. LimiterFits(c.limiter)
  BY <1>2, <1>3, CheckIs
<1>6. end \in Nat /\ KeyFits(c.limiter.at[ip], spent[ip], ip \in forgotten, end, now, MaxIp)
  <2>1. KeyFits(byIp.at[ip], spent[ip], ip \in forgotten, told[ip], now, MaxIp)
    BY <1>3, <1>4 DEF BudgetFits
  <2>2. told[ip] \in Nat
    BY <1>3, <1>4
  <2> QED
    BY <1>1, <1>2, <1>3, <2>1, <2>2, RefusedKeyFits
<1>7. ASSUME NEW j \in Ips \ {ip}
      PROVE  KeyFits(c.limiter.at[j], spent[j], j \in forgotten, told[j], now, MaxIp)
  <2>1. j \in Keys /\ Table(j) = byIp /\ Max_(j) = MaxIp
    BY KeysApart
  <2>2. KeyFits(byIp.at[j], spent[j], j \in forgotten, told[j], now, MaxIp)
    BY <1>4, <2>1 DEF BudgetFits
  <2>3. c.limiter.at[j] \in {byIp.at[j], WithinWindow(byIp.at[j], now)}
    BY <1>1, <1>2, <1>3, <2>1, CheckIs
  <2>4. told[j] \in Nat
    BY <1>4, <2>1
  <2> HIDE DEF c
  <2> QED
    BY <1>2, <1>3, <2>2, <2>3, <2>4, KeptFits
<1> HIDE DEF c, end
<1>8. LimiterFits(byIp)' /\ LimiterFits(byId)'
  BY <1>1, <1>2, <1>5 DEF LimiterFits, OrderFits, InTime
<1>9. LimiterTypeOK'
  BY <1>1, <1>2, <1>3, <1>5, <1>6, LimiterRecordTyped DEF LimiterTypeOK, LimiterFits
<1>10. ASSUME NEW k \in Keys PROVE BudgetFits(k)'
  <2>1. told'[ip] = end /\ \A j \in Keys \ {ip} : told'[j] = told[j]
    BY <1>1, <1>2, <1>3, <1>6, LimiterRecordTyped
  <2>2. CASE k = ip
    BY <1>1, <1>3, <1>6, <2>1, <2>2 DEF BudgetFits, Table
  <2>3. CASE k \in Ips \ {ip}
    BY <1>1, <1>7, <2>1, <2>3 DEF BudgetFits, Table, Max_
  <2>4. CASE k \notin Ips
    <3>1. k # ip /\ Table(k)' = Table(k)
      BY <1>1, <2>4 DEF Table
    <3> QED
      BY <1>1, <1>4, <2>1, <3>1 DEF BudgetFits
  <2> QED
    BY <2>2, <2>3, <2>4
<1> QED
  BY <1>8, <1>9, <1>10 DEF LimiterConsistent

LEMMA IdRefusedKeeps ==
  ASSUME LimiterConsistent, NEW ip \in Ips, NEW id \in Ids, IdRefused(ip, id)
  PROVE  LimiterConsistent'
<1> DEFINE c == Check(byIp, ip, MaxIp)
           d == Check(byId, id, MaxId)
           end == now + d.retryAfter * Second
<1>1. /\ c.allowed /\ ~d.allowed
      /\ byIp' = c.limiter /\ byId' = d.limiter
      /\ spent' = Charge(spent, ip)
      /\ forgotten' = forgotten \union Evicted(byIp, c.limiter)
      /\ told' = [told EXCEPT ![ip] = 0, ![id] = end]
      /\ now' = now
  BY DEF IdRefused
<1>2. now \in Times /\ LimiterFits(byIp) /\ LimiterFits(byId) /\ LimiterTypeOK
  BY DEF LimiterConsistent, LimiterTypeOK
<1>3. /\ ip \in Keys /\ id \in Keys /\ ip # id /\ id \notin Ips
      /\ Table(ip) = byIp /\ Max_(ip) = MaxIp /\ MaxIp \in Nat \ {0}
      /\ Table(id) = byId /\ Max_(id) = MaxId /\ MaxId \in Nat \ {0}
  BY KeysApart
<1>4. \A k \in Keys : BudgetFits(k) /\ told[k] \in Nat
  BY DEF LimiterConsistent, LimiterTypeOK
<1>5. LimiterFits(c.limiter) /\ LimiterFits(d.limiter)
  BY <1>2, <1>3, CheckIs
<1>6. KeyFits(c.limiter.at[ip], Append(spent[ip], now), ip \in forgotten', 0, now, MaxIp)
  <2>1. KeyFits(byIp.at[ip], spent[ip], ip \in forgotten, told[ip], now, MaxIp)
    BY <1>3, <1>4 DEF BudgetFits
  <2>2. told[ip] \in Nat /\ forgotten \subseteq forgotten'
    BY <1>1, <1>3, <1>4
  <2> QED
    BY <1>1, <1>2, <1>3, <2>1, <2>2, ChargedKeyFits
<1>7. end \in Nat /\ KeyFits(d.limiter.at[id], spent[id], id \in forgotten', end, now, MaxId)
  <2>1. KeyFits(byId.at[id], spent[id], id \in forgotten, told[id], now, MaxId)
    BY <1>3, <1>4 DEF BudgetFits
  <2>2. told[id] \in Nat /\ forgotten \subseteq forgotten'
    BY <1>1, <1>3, <1>4
  <2> QED
    BY <1>1, <1>2, <1>3, <2>1, <2>2, RefusedKeyFits
<1>8. ASSUME NEW j \in Ips \ {ip}
      PROVE  KeyFits(c.limiter.at[j], spent[j], j \in forgotten', told[j], now, MaxIp)
  <2>1. j \in Keys /\ Table(j) = byIp /\ Max_(j) = MaxIp /\ told[j] \in Nat
    BY <1>4, KeysApart
  <2>2. KeyFits(byIp.at[j], spent[j], j \in forgotten, told[j], now, MaxIp)
    BY <1>4, <2>1 DEF BudgetFits
  <2>3. /\ j \in forgotten => j \in forgotten'
        /\ j \in Evicted(byIp, Check(byIp, ip, MaxIp).limiter) => j \in forgotten'
    BY <1>1
  <2> QED
    BY <1>2, <1>3, <2>1, <2>2, <2>3, OtherKeyFits
<1>9. ASSUME NEW j \in Keys \ {id}, j \notin Ips
      PROVE  KeyFits(d.limiter.at[j], spent[j], j \in forgotten', told[j], now, MaxId)
  <2>1. Table(j) = byId /\ Max_(j) = MaxId /\ told[j] \in Nat
    BY <1>4, <1>9 DEF Table, Max_
  <2>2. KeyFits(byId.at[j], spent[j], j \in forgotten, told[j], now, MaxId)
    BY <1>4, <2>1 DEF BudgetFits
  <2>3. d.limiter.at[j] \in {byId.at[j], WithinWindow(byId.at[j], now)}
    BY <1>1, <1>2, <1>3, CheckIs
  <2>4. j \in forgotten => j \in forgotten'
    BY <1>1
  <2> HIDE DEF d
  <2>5. KeyFits(d.limiter.at[j], spent[j], j \in forgotten, told[j], now, MaxId)
    BY <1>2, <1>3, <2>1, <2>2, <2>3, KeptFits
  <2> QED
    BY <2>4, <2>5, GoneWeakens
<1> HIDE DEF c, d, end
<1>10. LimiterFits(byIp)' /\ LimiterFits(byId)'
  BY <1>1, <1>5 DEF LimiterFits, OrderFits, InTime
<1>11. /\ spent' \in [Keys -> Seq(Times)] /\ spent'[ip] = Append(spent[ip], now)
       /\ \A k \in Keys \ {ip} : spent'[k] = spent[k]
  BY <1>1, <1>2, <1>3, LimiterRecordTyped
<1>12. /\ told' \in [Keys -> Nat] /\ told'[ip] = 0 /\ told'[id] = end
       /\ \A k \in Keys \ {ip, id} : told'[k] = told[k]
  BY <1>1, <1>2, <1>3, <1>7 DEF LimiterTypeOK
<1>13. LimiterTypeOK'
  BY <1>1, <1>2, <1>5, <1>11, <1>12 DEF LimiterTypeOK, LimiterFits, Evicted, Tracked
<1>14. ASSUME NEW k \in Keys PROVE BudgetFits(k)'
  <2>1. CASE k = ip
    BY <1>1, <1>3, <1>6, <1>11, <1>12, <2>1 DEF BudgetFits, Table
  <2>2. CASE k = id
    <3>1. Table(k)' = d.limiter /\ Max_(k) = MaxId /\ spent'[k] = spent[k]
      BY <1>1, <1>3, <1>11, <2>2 DEF Table
    <3> QED
      BY <1>1, <1>7, <1>12, <2>2, <3>1 DEF BudgetFits
  <2>3. CASE k \in Ips \ {ip}
    <3>1. Table(k)' = c.limiter /\ Max_(k) = MaxIp /\ k # id
      BY <1>1, <1>3, <2>3 DEF Table, Max_
    <3> QED
      BY <1>1, <1>8, <1>11, <1>12, <2>3, <3>1 DEF BudgetFits
  <2>4. CASE k \notin Ips /\ k # id
    <3>1. Table(k)' = d.limiter /\ Max_(k) = MaxId /\ k # ip
      BY <1>1, <2>4 DEF Table, Max_
    <3> QED
      BY <1>1, <1>9, <1>11, <1>12, <2>4, <3>1 DEF BudgetFits
  <2> QED
    BY <2>1, <2>2, <2>3, <2>4
<1> QED
  BY <1>10, <1>13, <1>14 DEF LimiterConsistent

LEMMA TestedKeeps ==
  ASSUME LimiterConsistent, NEW ip \in Ips, NEW id \in Ids, NEW correct \in BOOLEAN,
         Tested(ip, id, correct)
  PROVE  LimiterConsistent'
<1> DEFINE c == Check(byIp, ip, MaxIp)
           d == Check(byId, id, MaxId)
           all == forgotten \union Evicted(byIp, c.limiter) \union Evicted(byId, d.limiter)
<1>1. /\ c.allowed /\ d.allowed
      /\ byIp' = c.limiter
      /\ byId' = IF correct THEN Reset(d.limiter, id) ELSE d.limiter
      /\ spent' = IF correct THEN [Charge(spent, ip) EXCEPT ![id] = <<>>]
                  ELSE Charge(Charge(spent, ip), id)
      /\ forgotten' = all \ (IF correct THEN {id} ELSE {})
      /\ told' = [told EXCEPT ![ip] = 0, ![id] = 0]
      /\ now' = now
  BY DEF Tested, Succeeded
<1>2. now \in Times /\ LimiterFits(byIp) /\ LimiterFits(byId) /\ LimiterTypeOK
  BY DEF LimiterConsistent, LimiterTypeOK
<1>3. /\ ip \in Keys /\ id \in Keys /\ ip # id /\ id \notin Ips
      /\ Table(ip) = byIp /\ Max_(ip) = MaxIp /\ MaxIp \in Nat \ {0}
      /\ Table(id) = byId /\ Max_(id) = MaxId /\ MaxId \in Nat \ {0}
  BY KeysApart
<1>4. \A k \in Keys : BudgetFits(k) /\ told[k] \in Nat
  BY DEF LimiterConsistent, LimiterTypeOK
<1>5. LimiterFits(c.limiter) /\ LimiterFits(d.limiter)
  BY <1>2, <1>3, CheckIs
<1>6. LimiterFits(Reset(d.limiter, id)) /\ Reset(d.limiter, id).at = [d.limiter.at EXCEPT ![id] = <<>>]
  BY <1>2, <1>3, <1>5, ResetIs
<1>7. KeyFits(c.limiter.at[ip], Append(spent[ip], now), ip \in all, 0, now, MaxIp)
  <2>1. KeyFits(byIp.at[ip], spent[ip], ip \in forgotten, told[ip], now, MaxIp)
    BY <1>3, <1>4 DEF BudgetFits
  <2>2. told[ip] \in Nat /\ forgotten \subseteq all
    BY <1>3, <1>4
  <2> QED
    BY <1>1, <1>2, <1>3, <2>1, <2>2, ChargedKeyFits
<1>8. KeyFits(d.limiter.at[id], Append(spent[id], now), id \in all, 0, now, MaxId)
  <2>1. KeyFits(byId.at[id], spent[id], id \in forgotten, told[id], now, MaxId)
    BY <1>3, <1>4 DEF BudgetFits
  <2>2. told[id] \in Nat /\ forgotten \subseteq all
    BY <1>3, <1>4
  <2> QED
    BY <1>1, <1>2, <1>3, <2>1, <2>2, ChargedKeyFits
<1>9. ASSUME NEW j \in Ips \ {ip}
      PROVE  KeyFits(c.limiter.at[j], spent[j], j \in all, told[j], now, MaxIp)
  <2>1. j \in Keys /\ Table(j) = byIp /\ Max_(j) = MaxIp /\ told[j] \in Nat
    BY <1>4, KeysApart
  <2>2. KeyFits(byIp.at[j], spent[j], j \in forgotten, told[j], now, MaxIp)
    BY <1>4, <2>1 DEF BudgetFits
  <2>3. /\ j \in forgotten => j \in all
        /\ j \in Evicted(byIp, Check(byIp, ip, MaxIp).limiter) => j \in all
    OBVIOUS
  <2> QED
    BY <1>2, <1>3, <2>1, <2>2, <2>3, OtherKeyFits
<1>10. ASSUME NEW j \in Keys \ {id}, j \notin Ips
       PROVE  KeyFits(d.limiter.at[j], spent[j], j \in all, told[j], now, MaxId)
  <2>1. Table(j) = byId /\ Max_(j) = MaxId /\ told[j] \in Nat
    BY <1>4, <1>10 DEF Table, Max_
  <2>2. KeyFits(byId.at[j], spent[j], j \in forgotten, told[j], now, MaxId)
    BY <1>4, <2>1 DEF BudgetFits
  <2>3. /\ j \in forgotten => j \in all
        /\ j \in Evicted(byId, Check(byId, id, MaxId).limiter) => j \in all
    OBVIOUS
  <2> QED
    BY <1>2, <1>3, <2>1, <2>2, <2>3, OtherKeyFits
<1>11. all \subseteq Keys
  BY <1>2 DEF LimiterTypeOK, Evicted, Tracked
<1>12. \A k \in Keys \ {id} : k \in forgotten' <=> k \in all
  BY <1>1
<1> HIDE DEF c, d, all
<1>13. LimiterFits(byIp)' /\ LimiterFits(byId)'
  BY <1>1, <1>5, <1>6 DEF LimiterFits, OrderFits, InTime
<1>14. /\ spent' \in [Keys -> Seq(Times)] /\ spent'[ip] = Append(spent[ip], now)
       /\ spent'[id] = IF correct THEN <<>> ELSE Append(spent[id], now)
       /\ \A k \in Keys \ {ip, id} : spent'[k] = spent[k]
  <2> DEFINE ch == Charge(spent, ip)
  <2>1. /\ ch \in [Keys -> Seq(Times)] /\ ch[ip] = Append(spent[ip], now)
        /\ \A k \in Keys \ {ip} : ch[k] = spent[k]
        /\ <<>> \in Seq(Times)
    BY <1>2, <1>3, LimiterRecordTyped, EmptySeq
  <2>2. spent' = [ch EXCEPT ![id] = IF correct THEN <<>> ELSE Append(ch[id], now)]
    BY <1>1 DEF Charge
  <2> HIDE DEF ch
  <2>3. Append(ch[id], now) \in Seq(Times) /\ ch[id] = spent[id]
    BY <1>2, <1>3, <2>1
  <2> QED
    BY <1>3, <2>1, <2>2, <2>3
<1>15. /\ told' \in [Keys -> Nat] /\ told'[ip] = 0 /\ told'[id] = 0
       /\ \A k \in Keys \ {ip, id} : told'[k] = told[k]
  BY <1>1, <1>2, <1>3 DEF LimiterTypeOK
<1>16. LimiterTypeOK'
  BY <1>1, <1>2, <1>5, <1>6, <1>11, <1>14, <1>15 DEF LimiterTypeOK, LimiterFits
<1>17. byId'.at[id] = (IF correct THEN <<>> ELSE d.limiter.at[id])
  <2>1. d.limiter.at \in [Keys -> Seq(Times)]
    BY <1>5, LimiterFields DEF LimiterFits
  <2> QED
    BY <1>1, <1>3, <1>6, <2>1
<1>18. \A k \in Keys \ {id} : byId'.at[k] = d.limiter.at[k]
  <2>1. d.limiter.at \in [Keys -> Seq(Times)]
    BY <1>5, LimiterFields DEF LimiterFits
  <2> QED
    BY <1>1, <1>6, <2>1
<1>19. ASSUME NEW k \in Keys PROVE BudgetFits(k)'
  <2>0. Table(k)' = IF k \in Ips THEN byIp' ELSE byId'
    BY DEF Table
  <2>1. CASE k = ip
    <3>1. (k \in forgotten') = (k \in all)
      BY <1>3, <1>12, <2>1
    <3> QED
      BY <1>1, <1>3, <1>7, <1>14, <1>15, <2>0, <2>1, <3>1 DEF BudgetFits
  <2>2. CASE k = id /\ correct
    <3>1. KeyFits(<<>>, <<>>, FALSE, 0, now, MaxId)
      BY <1>2, <1>3, ClearedFits
    <3>2. (k \in forgotten') = FALSE
      BY <1>1, <2>2
    <3> QED
      BY <1>1, <1>3, <1>14, <1>15, <1>17, <2>0, <2>2, <3>1, <3>2 DEF BudgetFits
  <2>3. CASE k = id /\ ~correct
    <3>1. (k \in forgotten') = (k \in all)
      BY <1>1, <2>3
    <3> QED
      BY <1>1, <1>3, <1>8, <1>14, <1>15, <1>17, <2>0, <2>3, <3>1 DEF BudgetFits
  <2>4. CASE k \in Ips \ {ip}
    <3>1. (k \in forgotten') = (k \in all) /\ Max_(k) = MaxIp /\ k # id
      BY <1>3, <1>12, <2>4 DEF Max_
    <3> QED
      BY <1>1, <1>9, <1>14, <1>15, <2>0, <2>4, <3>1 DEF BudgetFits
  <2>5. CASE k \notin Ips /\ k # id
    <3>1. (k \in forgotten') = (k \in all) /\ Max_(k) = MaxId /\ k # ip
      BY <1>12, <2>5 DEF Max_
    <3> QED
      BY <1>1, <1>10, <1>14, <1>15, <1>18, <2>0, <2>5, <3>1 DEF BudgetFits
  <2> QED
    BY <2>1, <2>2, <2>3, <2>4, <2>5
<1> QED
  BY <1>13, <1>16, <1>19 DEF LimiterConsistent

LEMMA TickKeeps ==
  ASSUME LimiterConsistent, Tick
  PROVE  LimiterConsistent'
<1>1. /\ now < MaxTime /\ now' = now + 1
      /\ spent' = [k \in Keys |-> WithinWindow(spent[k], now')]
      /\ forgotten' = {k \in forgotten : spent'[k] # <<>>}
      /\ UNCHANGED <<byIp, byId, told>>
  BY DEF Tick
<1>2. now \in Times /\ LimiterFits(byIp) /\ LimiterFits(byId) /\ LimiterTypeOK
  BY DEF LimiterConsistent, LimiterTypeOK
<1>3. now + 1 \in Times /\ now \in Nat
  BY <1>1, <1>2, LimiterAssumption DEF Times
<1>4. ASSUME NEW l, LimiterFits(l), NEW k \in Keys PROVE InTime(l.at[k], now + 1)
  <2>1. /\ l.at[k] \in Seq(Times) /\ InOrder(l.at[k])
        /\ \A i \in 1..Len(l.at[k]) : l.at[k][i] <= now /\ l.at[k][i] \in Nat
    BY <1>4, AttemptsAreTimes DEF LimiterFits, InTime
  <2> QED
    BY <1>3, <2>1 DEF InTime
<1>5. LimiterFits(byIp)' /\ LimiterFits(byId)'
  BY <1>1, <1>2, <1>4 DEF LimiterFits, OrderFits, InTime
<1>6. ASSUME NEW k \in Keys
      PROVE  BudgetFits(k)' /\ spent'[k] \in Seq(Times)
  <2> DEFINE left == WithinWindow(spent[k], now + 1)
  <2>1. KeyFits(Table(k).at[k], spent[k], k \in forgotten, told[k], now, Max_(k))
    BY DEF LimiterConsistent, BudgetFits
  <2>2. told[k] \in Nat /\ Max_(k) \in Nat
    BY <1>2, KeysApart DEF LimiterTypeOK
  <2>3. KeyFits(Table(k).at[k], left, k \in forgotten /\ left # <<>>, told[k], now + 1, Max_(k))
    BY <1>2, <1>3, <2>1, <2>2, TickedFits
  <2>4. spent'[k] = left
    BY <1>1
  <2>5. (k \in forgotten') = (k \in forgotten /\ left # <<>>)
    BY <1>1, <2>4
  <2>6. Table(k)' = Table(k) /\ told'[k] = told[k]
    BY <1>1 DEF Table
  <2>7. left \in Seq(Times)
    BY <2>3 DEF KeyFits, InTime
  <2> HIDE DEF left
  <2> QED
    BY <1>1, <2>3, <2>4, <2>5, <2>6, <2>7 DEF BudgetFits
<1>7. spent' \in [Keys -> Seq(Times)]
  BY <1>1, <1>6
<1>8. LimiterTypeOK'
  BY <1>1, <1>2, <1>3, <1>7 DEF LimiterTypeOK
<1> QED
  BY <1>5, <1>6, <1>8 DEF LimiterConsistent

LEMMA RestartKeeps ==
  ASSUME LimiterConsistent, Restart
  PROVE  LimiterConsistent'
<1>1. /\ byIp' = Empty /\ byId' = Empty /\ now' = now /\ forgotten' = {}
      /\ spent' = [k \in Keys |-> <<>>] /\ told' = [k \in Keys |-> 0]
  BY DEF Restart
<1>2. now \in Times
  BY DEF LimiterConsistent, LimiterTypeOK
<1>3. LimiterFits(byIp)' /\ LimiterFits(byId)'
  BY <1>1, <1>2, EmptyFits DEF LimiterFits, OrderFits, InTime
<1>4. spent' \in [Keys -> Seq(Times)] /\ told' \in [Keys -> Nat]
  BY <1>1, EmptySeq
<1>5. LimiterTypeOK'
  <2>1. Empty \in Limiter
    BY <1>2, EmptyFits DEF LimiterFits
  <2> QED
    BY <1>1, <1>2, <1>4, <2>1 DEF LimiterTypeOK
<1>6. ASSUME NEW k \in Keys PROVE BudgetFits(k)'
  <2>1. KeyFits(<<>>, <<>>, FALSE, 0, now, Max_(k))
    BY <1>2, EmptyFits
  <2>2. /\ Table(k)'.at[k] = <<>> /\ spent'[k] = <<>> /\ told'[k] = 0
        /\ (k \in forgotten') = FALSE
    BY <1>1, <1>2, EmptyFits DEF Table
  <2> QED
    BY <1>1, <2>1, <2>2 DEF BudgetFits
<1> QED
  BY <1>3, <1>5, <1>6 DEF LimiterConsistent

LEMMA LimiterStep == LimiterConsistent /\ [LimiterNext]_limiterVars => LimiterConsistent'
<1> SUFFICES ASSUME LimiterConsistent, [LimiterNext]_limiterVars PROVE LimiterConsistent'
  OBVIOUS
<1>1. ASSUME NEW ip \in Ips, NEW id \in Ids, Login(ip, id) PROVE LimiterConsistent'
  BY <1>1, IpRefusedKeeps, IdRefusedKeeps, TestedKeeps DEF Login
<1>2. CASE Tick
  BY <1>2, TickKeeps
<1>3. CASE Restart
  BY <1>3, RestartKeeps
<1>4. CASE UNCHANGED limiterVars
  BY <1>4 DEF limiterVars, LimiterConsistent, LimiterTypeOK, LimiterFits, OrderFits, InTime,
              BudgetFits, Table
<1> QED
  BY <1>1, <1>2, <1>3, <1>4 DEF LimiterNext

LEMMA LimiterAlwaysConsistent == LimiterSpec => []LimiterConsistent
  BY LimiterStarts, LimiterStep, PTL DEF LimiterSpec

(***************************************************************************)
(* Type correctness of both limiters, for any window, budgets and table.   *)
(***************************************************************************)
THEOREM LimiterTypeCorrect == LimiterSpec => []LimiterTypeOK
<1>1. LimiterConsistent => LimiterTypeOK
  BY DEF LimiterConsistent
<1> QED
  BY <1>1, LimiterAlwaysConsistent, PTL

(***************************************************************************)
(* What counts against an address or an identifier is exactly what it was  *)
(* charged for in the last window, and never more than it is allowed,      *)
(* unless the full table evicted it: check, sweep, evictIfOverCapacity and *)
(* reset (rateLimit.ts), in the order the login handler calls them.        *)
(***************************************************************************)
THEOREM BudgetsAreExact == LimiterSpec => []BudgetIsExact
<1>1. LimiterConsistent => BudgetIsExact
  <2> SUFFICES ASSUME LimiterConsistent, NEW k \in Keys \ forgotten
               PROVE  Counted(k) = spent[k] /\ Len(spent[k]) <= Max_(k)
    BY DEF BudgetIsExact
  <2>1. CountFits(Table(k).at[k], spent[k], k \in forgotten, now, Max_(k))
    BY DEF LimiterConsistent, BudgetFits, KeyFits
  <2> QED
    BY <2>1 DEF CountFits, Counted
<1> QED
  BY <1>1, LimiterAlwaysConsistent, PTL

(***************************************************************************)
(* When the wait a 429 named is over there is budget again, and up to a    *)
(* second before there was none: retryAfterSeconds rounds up, once.        *)
(***************************************************************************)
THEOREM RetryAfterHonest == LimiterSpec => []RetryAfterIsHonest
<1>1. LimiterConsistent => RetryAfterIsHonest
  <2> SUFFICES ASSUME LimiterConsistent, NEW k \in Keys, told[k] # 0
               PROVE  /\ now >= told[k] => Len(Counted(k)) < Max_(k)
                      /\ now + Second <= told[k] /\ k \notin forgotten
                            => Len(Counted(k)) >= Max_(k)
    BY DEF RetryAfterIsHonest
  <2> DEFINE s == Table(k).at[k]
             T == told[k]
  <2>1. WaitFits(s, spent[k], k \in forgotten, T, now, Max_(k)) /\ InTime(s, now)
    BY DEF LimiterConsistent, BudgetFits, KeyFits
  <2>2. now \in Nat /\ T \in Nat /\ Max_(k) \in Nat
    BY TimesAreNumbers, KeysApart DEF LimiterConsistent, LimiterTypeOK
  <2> HIDE DEF s, T
  <2>3. s \in Seq(Times) /\ InOrder(s)
    BY <2>1 DEF InTime
  <2>4. /\ WithinWindow(s, now) \in Seq(Times) /\ Len(WithinWindow(s, now)) \in Nat
        /\ WithinWindow(s, T) \in Seq(Times) /\ Len(WithinWindow(s, T)) \in Nat
    BY <2>2, <2>3, WithinIs, AttemptsAreTimes
  <2>5. ASSUME now >= T PROVE Len(WithinWindow(s, now)) < Max_(k)
    <3>1. Len(WithinWindow(s, now)) <= Len(WithinWindow(s, T))
      BY <2>2, <2>3, <2>5, WithinShrinks
    <3>2. Len(WithinWindow(s, T)) < Max_(k)
      BY <2>1 DEF WaitFits
    <3> QED
      BY <2>2, <2>4, <3>1, <3>2
  <2>6. ASSUME now + Second <= T, k \notin forgotten
        PROVE  Len(WithinWindow(s, now)) >= Max_(k)
    <3>1. now <= now
      BY <2>2
    <3>2. Max_(k) <= Len(WithinWindow(s, now))
      BY <2>1, <2>2, <2>6, <3>1 DEF WaitFits
    <3> QED
      BY <2>2, <2>4, <3>2
  <2> QED
    BY <2>5, <2>6 DEF Counted, s, T
<1> QED
  BY <1>1, LimiterAlwaysConsistent, PTL
=============================================================================
