------------------------------- MODULE Access -------------------------------
(***************************************************************************)
(* Signing in on a phone that officers share: refresh tokens and their     *)
(* rotation (auth.ts, the /v1/auth routes), and the phone's client that    *)
(* keeps the token pair and refreshes it on a 401 (api.ts).                *)
(*                                                                         *)
(* Two calls can be under way on the phone: one of the background run,     *)
(* which makes several in turn and outlives a sign-out, and the one of the *)
(* login screen.  They interleave at every await; the pair is stored, and  *)
(* cleared, one key after the other.  Requests and answers may be lost and *)
(* the app may be killed.                                                  *)
(***************************************************************************)
EXTENDS Naturals, Sequences, FiniteSets

CONSTANTS
    Users,       \* officers who share the phone
    None,
    MaxTokens    \* bound: refresh tokens issued

Calls == {"sync", "login"}
AccessToken == [user : Users, fresh : BOOLEAN]

\* A row of refresh_tokens; chain and parent say where it comes from.
TokenRow == [user : Users, state : {"live", "spent", "dead"}, chain : Nat, parent : Nat]

CallState ==
    [at : {"idle", "ask", "refresh", "renewed", "half"},
     retrying : BOOLEAN,               \* call()'s last argument
     user : Users \union {None},       \* login: who is signing in
     carried : AccessToken \union {None},
     token : Nat,                      \* refresh token sent, or received
     grant : BOOLEAN]                  \* received from login, not a refresh

ASSUME AccessAssumption ==
    /\ MaxTokens \in Nat
    /\ None \notin Users /\ None \notin AccessToken

VARIABLES
    tokens,    \* server: refresh_tokens, in the order issued
    shown,     \* phone: the officer signed in, as the app shows it
    access,    \* phone: stored access token
    refresh,   \* phone: stored refresh token, 0 when there is none
    leaving,   \* phone: sign-out has cleared the first of the two
    running,   \* phone: a run is under way
    calls,     \* phone: the calls under way
    lost       \* history: tokens issued that never reached the phone's store

store == <<access, refresh>>
phone == <<shown, leaving, running>>
vars == <<tokens, store, phone, calls, lost>>

IdleCall == [at |-> "idle", retrying |-> FALSE, user |-> None, carried |-> None,
             token |-> 0, grant |-> FALSE]

TypeOK ==
    /\ tokens \in Seq(TokenRow)
    /\ shown \in Users \union {None}
    /\ access \in AccessToken \union {None}
    /\ refresh \in 0..Len(tokens)
    /\ leaving \in BOOLEAN /\ running \in BOOLEAN
    /\ calls \in [Calls -> CallState]
    /\ lost \subseteq 1..Len(tokens)

Init ==
    /\ tokens = <<>>
    /\ shown = None
    /\ access = None /\ refresh = 0
    /\ leaving = FALSE /\ running = FALSE
    /\ calls = [c \in Calls |-> IdleCall]
    /\ lost = {}

-----------------------------------------------------------------------------
Busy(c) == calls[c].at # "idle"
At(c, place) == calls[c].at = place

\* A call is issued at most two tokens: by one refresh and by the login.
Room == Len(tokens) + 2 * (1 + Cardinality({c \in Calls : Busy(c)})) <= MaxTokens

Call(at, retrying, user, carried, token, grant) ==
    [at |-> at, retrying |-> retrying, user |-> user, carried |-> carried,
     token |-> token, grant |-> grant]

Becomes(c, state) == calls' = [calls EXCEPT ![c] = state]
Ends(c) == Becomes(c, IdleCall)

\* The call stands where it did, with another place and refresh token.
Moves(c, at, token, grant) ==
    Becomes(c, Call(at, calls[c].retrying, calls[c].user, calls[c].carried,
                    token, grant))

-----------------------------------------------------------------------------
(***************************************************************************)
(* The officer.                                                            *)
(***************************************************************************)
StartLogin(u) ==
    /\ shown = None
    /\ ~Busy("login")
    /\ Room
    /\ Becomes("login", Call("ask", FALSE, u, None, 0, FALSE))
    /\ UNCHANGED <<tokens, store, phone, lost>>

\* signOut: clearTokens deletes one key after the other, then the screen goes.
ClearAccess ==
    /\ shown # None /\ ~leaving
    /\ access' = None
    /\ leaving' = TRUE
    /\ UNCHANGED <<tokens, refresh, shown, running, calls, lost>>

ClearRefresh ==
    /\ leaving
    /\ refresh' = 0
    /\ shown' = None
    /\ leaving' = FALSE
    /\ UNCHANGED <<tokens, access, running, calls, lost>>

-----------------------------------------------------------------------------
(***************************************************************************)
(* Calls: a request, on a 401 one refresh, and the request again.          *)
(***************************************************************************)
\* runSync starts while somebody is signed in, one at a time.
StartRun ==
    /\ shown # None
    /\ ~running
    /\ running' = TRUE
    /\ UNCHANGED <<tokens, store, shown, leaving, calls, lost>>

\* The run's next call (the upload, the report, an image's URL or verdict),
\* with whatever is stored by now.
StartSync ==
    /\ running
    /\ ~Busy("sync")
    /\ Room
    /\ Becomes("sync", Call("ask", FALSE, None, access, 0, FALSE))
    /\ UNCHANGED <<tokens, store, phone, lost>>

EndRun ==
    /\ running
    /\ ~Busy("sync")
    /\ running' = FALSE
    /\ UNCHANGED <<tokens, store, shown, leaving, calls, lost>>

Unauthorised(c) ==
    IF calls[c].retrying \/ refresh = 0 THEN Ends(c) ELSE Moves(c, "refresh", refresh, FALSE)

\* authenticate: a bearer token that verifies and has not expired.
Valid(bearer) == bearer \in [user : Users, fresh : {TRUE}]

SyncAccepted ==
    /\ At("sync", "ask")
    /\ Valid(calls["sync"].carried)
    /\ Ends("sync")
    /\ UNCHANGED <<tokens, store, phone, lost>>

SyncUnauthorised ==
    /\ At("sync", "ask")
    /\ ~Valid(calls["sync"].carried)
    /\ Unauthorised("sync")
    /\ UNCHANGED <<tokens, store, phone, lost>>

Issue(row) == tokens' = Append(tokens, row)

LoginGranted ==
    /\ At("login", "ask")
    /\ Issue([user |-> calls["login"].user, state |-> "live",
              chain |-> Len(tokens) + 1, parent |-> 0])
    /\ Moves("login", "renewed", Len(tokens) + 1, TRUE)
    /\ UNCHANGED <<store, phone, lost>>

\* A wrong password is a 401 too: the stored token, if any, is refreshed.
LoginRefused ==
    /\ At("login", "ask")
    /\ Unauthorised("login")
    /\ UNCHANGED <<tokens, store, phone, lost>>

\* No network, or another status (a 429 among them).
CallFails(c) ==
    /\ At(c, "ask") \/ At(c, "refresh")
    /\ Ends(c)
    /\ UNCHANGED <<tokens, store, phone, lost>>

-----------------------------------------------------------------------------
(***************************************************************************)
(* POST /v1/auth/refresh, rotateRefreshToken, and storing the new pair.    *)
(***************************************************************************)
Row(t, state) == [user |-> tokens[t].user, state |-> state,
                  chain |-> tokens[t].chain, parent |-> tokens[t].parent]

With(t, state) == [tokens EXCEPT ![t] = Row(t, state)]

\* Mutant: the token presented stays usable.
Rotated_Kept(t) ==
    Append(tokens, [user |-> tokens[t].user, state |-> "live",
                    chain |-> tokens[t].chain, parent |-> t])

Rotated(t) ==
    Append(With(t, "spent"), [user |-> tokens[t].user, state |-> "live",
                              chain |-> tokens[t].chain, parent |-> t])

RefreshServed(c) ==
    /\ At(c, "refresh")
    /\ tokens[calls[c].token].state = "live"
    /\ tokens' = Rotated(calls[c].token)
    /\ Moves(c, "renewed", Len(tokens) + 1, FALSE)
    /\ UNCHANGED <<store, phone, lost>>

\* Mutant: a refused refresh is sent again.
RefreshRefused_Again(c) ==
    /\ At(c, "refresh")
    /\ tokens[calls[c].token].state # "live"
    /\ UNCHANGED vars

RefreshRefused(c) ==
    /\ At(c, "refresh")
    /\ tokens[calls[c].token].state # "live"
    /\ Ends(c)
    /\ UNCHANGED <<tokens, store, phone, lost>>

\* The answer with the new pair does not arrive.
PairLost(c) ==
    /\ At(c, "renewed")
    /\ lost' = lost \union {calls[c].token}
    /\ Ends(c)
    /\ UNCHANGED <<tokens, store, phone>>

SaveAccess(c) ==
    /\ At(c, "renewed")
    /\ access' = [user |-> tokens[calls[c].token].user, fresh |-> TRUE]
    /\ Moves(c, "half", calls[c].token, calls[c].grant)
    /\ UNCHANGED <<tokens, refresh, phone, lost>>

\* Mutant: a refresh stores the new access token only.
Stored_GrantOnly(c) == IF calls[c].grant THEN calls[c].token ELSE refresh

Stored(c) == calls[c].token

\* After a login the app opens; after a refresh the request is sent again.
SaveRefresh(c) ==
    /\ At(c, "half")
    /\ refresh' = Stored(c)
    /\ IF calls[c].grant
       THEN Ends(c) /\ shown' = calls[c].user
       ELSE /\ Becomes(c, Call("ask", TRUE, calls[c].user,
                               IF c = "sync" THEN access ELSE None,
                               0, FALSE))
            /\ UNCHANGED shown
    /\ UNCHANGED <<tokens, access, leaving, running, lost>>

-----------------------------------------------------------------------------
(***************************************************************************)
(* Time and failure.                                                       *)
(***************************************************************************)
AccessExpires ==
    /\ Valid(access)
    /\ access' = [user |-> access.user, fresh |-> FALSE]
    /\ UNCHANGED <<tokens, refresh, phone, calls, lost>>

\* Thirty days pass, or POST /v1/auth/logout revokes it.
TokenDies(t) ==
    /\ tokens[t].state = "live"
    /\ tokens' = With(t, "dead")
    /\ UNCHANGED <<store, phone, calls, lost>>

\* The app starts at the login screen again; the stored pair stays.
AppKilled ==
    /\ shown # None \/ running \/ \E c \in Calls : Busy(c)
    /\ shown' = None
    /\ leaving' = FALSE /\ running' = FALSE
    /\ calls' = [c \in Calls |-> IdleCall]
    /\ lost' = lost \union
          {calls[c].token : c \in {d \in Calls : At(d, "renewed") \/ At(d, "half")}}
    /\ UNCHANGED <<tokens, store>>

-----------------------------------------------------------------------------
SyncStep == SyncAccepted \/ SyncUnauthorised
LoginStep == LoginGranted \/ LoginRefused
TokenStep(c) == RefreshServed(c) \/ RefreshRefused(c) \/ SaveAccess(c) \/ SaveRefresh(c)

Next ==
    \/ \E u \in Users : StartLogin(u)
    \/ ClearAccess \/ ClearRefresh
    \/ StartRun \/ StartSync \/ EndRun
    \/ SyncStep \/ LoginStep
    \/ \E c \in Calls : TokenStep(c) \/ CallFails(c) \/ PairLost(c)
    \/ AccessExpires \/ AppKilled
    \/ \E t \in 1..Len(tokens) : TokenDies(t)

Spec == Init /\ [][Next]_vars

\* Every request is answered or fails, and the phone goes on from there.
FairSpec ==
    /\ Spec
    /\ WF_vars(SyncStep) /\ WF_vars(LoginStep)
    /\ \A c \in Calls : WF_vars(TokenStep(c))

-----------------------------------------------------------------------------
(***************************************************************************)
(* Rotation keeps at most one usable refresh token per sign-in, however    *)
(* many calls present the same one at once ("a refresh token is single-    *)
(* use", rotateRefreshToken).                                              *)
(***************************************************************************)
OneLivePerChain ==
    \A i, j \in 1..Len(tokens) :
        /\ tokens[i].state = "live" /\ tokens[j].state = "live"
        /\ tokens[i].chain = tokens[j].chain
        => i = j

(***************************************************************************)
(* A spent token stays in the phone's store only while the token that      *)
(* replaces it is on its way there, or because it was lost on the way:     *)
(* concurrent calls, sign-outs and sign-ins alone never leave the phone    *)
(* with a token that cannot be refreshed.                                  *)
(***************************************************************************)
UnderWay(n) == \E c \in Calls : calls[c].at \in {"renewed", "half"} /\ calls[c].token = n

HeldTokenWorks ==
    refresh # 0 /\ tokens[refresh].state = "spent" =>
        \E n \in 1..Len(tokens) :
            tokens[n].parent = refresh /\ (UnderWay(n) \/ n \in lost)

(***************************************************************************)
(* Every call comes to an end: a 401 is answered with one refresh, not     *)
(* with another after the next 401.                                        *)
(***************************************************************************)
CallsEnd == \A c \in Calls : Busy(c) ~> ~Busy(c)
=============================================================================
