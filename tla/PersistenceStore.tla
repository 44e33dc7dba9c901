-------------------------- MODULE PersistenceStore --------------------------
(***************************************************************************)
(* The contract of a persistence provider (spec 4.6 and 5), stated as an   *)
(* abstract store.  Each call is admitted or refused at its start (refused *)
(* with ErrNotOpen once the provider is shut down) and an admitted call    *)
(* later takes effect atomically.  A call still running when shutdown      *)
(* begins may instead fail without any effect.                             *)
(*                                                                         *)
(*  - sessions: Absent until the first session is created (GetAll is then  *)
(*    ErrNotFound), else the set of live session ids;                      *)
(*  - subscriptions of a session: Absent or a topic -> QoS map, where a    *)
(*    later Add of a topic overrides the earlier one;                      *)
(*  - messages of a session: Absent or one queue per direction, kept in    *)
(*    store order;                                                         *)
(*  - retained messages: Absent or a queue in store order.                 *)
(* Deleting a session removes its subscriptions and messages.  Queries     *)
(* return (value, error) pairs; a failed query returns err "fail".         *)
(***************************************************************************)
EXTENDS StoreTypes

CONSTANT Absent

VARIABLES aSessions, aSubs, aMsgs, aRetained, aClosed, aPending, aResult

avars == <<aSessions, aSubs, aMsgs, aRetained, aClosed, aPending, aResult>>

SubMaps == UNION {[T -> QoS] : T \in SUBSET Topics}

TypeOK ==
    /\ aSessions \in {Absent} \cup SUBSET Sessions
    /\ aSubs \in [Sessions -> {Absent} \cup SubMaps]
    /\ aMsgs \in [Sessions -> {Absent} \cup [Dirs -> Seq(Msgs)]]
    /\ aRetained \in {Absent} \cup Seq(Msgs)
    /\ aClosed \in BOOLEAN
    /\ aPending \in [Clients -> Requests \cup {NoArg}]

Exists(s) == aSessions # Absent /\ s \in aSessions

\* t -> q of m2 wins over t -> q of m1.
Override(m1, m2) ==
    [t \in DOMAIN m1 \cup DOMAIN m2 |-> IF t \in DOMAIN m2 THEN m2[t] ELSE m1[t]]

EmptyQueues == [d \in Dirs |-> <<>>]

\* The state change of an admitted call.
Effect(r) ==
    LET s == r.ses IN
    CASE r.op = "SessionsNew" ->
            /\ aSessions' = IF aSessions = Absent THEN {s} ELSE aSessions \cup {s}
            /\ UNCHANGED <<aSubs, aMsgs, aRetained>>
      [] r.op = "SessionsDelete" /\ Exists(s) ->
            /\ aSessions' = aSessions \ {s}
            /\ aSubs' = [aSubs EXCEPT ![s] = Absent]
            /\ aMsgs' = [aMsgs EXCEPT ![s] = Absent]
            /\ UNCHANGED aRetained
      [] r.op = "SubscriptionsAdd" /\ Exists(s) ->
            /\ aSubs' = [aSubs EXCEPT ![s] =
                            IF @ = Absent THEN r.arg ELSE Override(@, r.arg)]
            /\ UNCHANGED <<aSessions, aMsgs, aRetained>>
      [] r.op = "SubscriptionsDelete" /\ Exists(s) ->
            /\ aSubs' = [aSubs EXCEPT ![s] = Absent]
            /\ UNCHANGED <<aSessions, aMsgs, aRetained>>
      [] r.op = "MessagesStore" /\ Exists(s) ->
            /\ aMsgs' = [aMsgs EXCEPT ![s] =
                   LET q == IF @ = Absent THEN EmptyQueues ELSE @
                   IN  [q EXCEPT ![r.dir] = @ \o r.arg]]
            /\ UNCHANGED <<aSessions, aSubs, aRetained>>
      [] r.op = "MessagesDelete" /\ Exists(s) ->
            /\ aMsgs' = [aMsgs EXCEPT ![s] = Absent]
            /\ UNCHANGED <<aSessions, aSubs, aRetained>>
      [] r.op = "RetainedStore" ->
            /\ aRetained' = IF aRetained = Absent THEN r.arg ELSE aRetained \o r.arg
            /\ UNCHANGED <<aSessions, aSubs, aMsgs>>
      [] r.op = "RetainedDelete" ->
            /\ aRetained' = Absent
            /\ UNCHANGED <<aSessions, aSubs, aMsgs>>
      [] OTHER -> UNCHANGED <<aSessions, aSubs, aMsgs, aRetained>>

NotFound == Reply("ErrNotFound", NoArg)

\* The value a query returns; other calls return nothing the contract fixes.
Answer(r) ==
    LET s == r.ses IN
    CASE r.op = "SessionsGet" ->
            IF Exists(s) THEN Reply("nil", s) ELSE NotFound
      [] r.op = "SessionsGetAll" ->
            IF aSessions = Absent THEN NotFound ELSE Reply("nil", aSessions)
      [] r.op = "SubscriptionsGet" ->
            IF Exists(s) /\ aSubs[s] # Absent THEN Reply("nil", aSubs[s]) ELSE NotFound
      [] r.op = "MessagesLoad" ->
            IF Exists(s) /\ aMsgs[s] # Absent THEN Reply("nil", aMsgs[s]) ELSE NotFound
      [] r.op = "RetainedLoad" ->
            IF aRetained # Absent THEN Reply("nil", aRetained) ELSE NotFound
      [] OTHER -> NoArg

Init ==
    /\ aSessions = Absent
    /\ aSubs = [s \in Sessions |-> Absent]
    /\ aMsgs = [s \in Sessions |-> Absent]
    /\ aRetained = Absent
    /\ aClosed = FALSE
    /\ aPending = [c \in Clients |-> NoArg]
    /\ aResult = [c \in Clients |-> NoArg]

\* A call starts: refused with ErrNotOpen after shutdown, else admitted.
Invoke(c, r) ==
    /\ aPending[c] = NoArg
    /\ IF aClosed
         THEN /\ aResult' = [aResult EXCEPT ![c] =
                    IF r.op \in QueryOps THEN Reply("ErrNotOpen", NoArg) ELSE NoArg]
              /\ UNCHANGED aPending
         ELSE /\ aPending' = [aPending EXCEPT ![c] = r]
              /\ aResult' = [aResult EXCEPT ![c] = NoArg]
    /\ UNCHANGED <<aSessions, aSubs, aMsgs, aRetained, aClosed>>

\* An admitted call takes effect atomically and returns its answer.
Complete(c) ==
    /\ aPending[c] # NoArg
    /\ Effect(aPending[c])
    /\ aResult' = [aResult EXCEPT ![c] = Answer(aPending[c])]
    /\ aPending' = [aPending EXCEPT ![c] = NoArg]
    /\ UNCHANGED aClosed

\* Once shutdown has begun, an admitted call may fail with no effect.
Abort(c) ==
    /\ aClosed
    /\ aPending[c] # NoArg
    /\ aResult' = [aResult EXCEPT ![c] =
            IF aPending[c].op \in QueryOps THEN Reply("fail", NoArg) ELSE NoArg]
    /\ aPending' = [aPending EXCEPT ![c] = NoArg]
    /\ UNCHANGED <<aSessions, aSubs, aMsgs, aRetained, aClosed>>

Close ==
    /\ ~aClosed
    /\ aClosed' = TRUE
    /\ UNCHANGED <<aSessions, aSubs, aMsgs, aRetained, aPending, aResult>>

Next ==
    \/ \E c \in Clients, r \in Requests : Invoke(c, r)
    \/ \E c \in Clients : Complete(c) \/ Abort(c)
    \/ Close

Spec == Init /\ [][Next]_avars
=============================================================================
