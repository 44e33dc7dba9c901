----------------------------- MODULE StoreTypes -----------------------------
(***************************************************************************)
(* Values shared by the persistence contract (PersistenceStore) and the    *)
(* bolt backend (BoltStore): the requests a caller of a persistence        *)
(* provider can make, the (value, error) pair a call returns, and the      *)
(* message records that Messages.Store / Retained.Store persist.           *)
(***************************************************************************)
EXTENDS Naturals, Sequences, FiniteSets

CONSTANTS
    Clients,     \* goroutines calling the provider
    Sessions,    \* session ids
    Topics,      \* topic names
    Msgs,        \* PUBLISH / PUBREL messages a caller may store
    SubArgs,     \* message.TopicsQoS maps passed to Subscriptions.Add
    Batches,     \* []message.Provider slices passed to Store
    NoArg        \* absent argument / unset value (a model value)

Dirs == {"in", "out"}
QoS  == 0..2

\* A message as the codec sees it: type tag, packet ID, QoS, topic, payload.
MsgRecords ==
    [type: {"PUBLISH", "PUBREL"}, id: Nat, qos: QoS,
     topic: Topics \cup {NoArg}, payload: {"", "data"}]

ASSUME Msgs \subseteq MsgRecords
ASSUME \A a \in SubArgs : a \in UNION {[T -> QoS] : T \in SUBSET Topics}
ASSUME \A b \in Batches : b \in Seq(Msgs)

Request(op, s, d, a) == [op |-> op, ses |-> s, dir |-> d, arg |-> a]

\* Every call of the provider's interfaces, with its arguments.
Requests ==
       {Request(o, s, NoArg, NoArg) :
            o \in {"SessionsNew", "SessionsGet", "SessionsDelete",
                   "SubscriptionsGet", "SubscriptionsDelete",
                   "MessagesLoad", "MessagesDelete"},
            s \in Sessions}
  \cup {Request(o, NoArg, NoArg, NoArg) :
            o \in {"SessionsGetAll", "RetainedLoad", "RetainedDelete"}}
  \cup {Request("SubscriptionsAdd", s, NoArg, a) : s \in Sessions, a \in SubArgs}
  \cup {Request("MessagesStore", s, d, b) : s \in Sessions, d \in Dirs, b \in Batches}
  \cup {Request("RetainedStore", NoArg, NoArg, b) : b \in Batches}

\* Calls whose returned value, not only their effect, the contract fixes.
QueryOps == {"SessionsGet", "SessionsGetAll", "SubscriptionsGet",
             "MessagesLoad", "RetainedLoad"}

\* The (value, error) pair of a Go call; err = "nil" is success.
Reply(e, v) == [err |-> e, val |-> v]
NoReply == Reply("none", NoArg)
=============================================================================
