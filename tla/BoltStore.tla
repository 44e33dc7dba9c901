------------------------------ MODULE BoltStore ------------------------------
(***************************************************************************)
(* The boltdb persistence provider (package boltdb, src/unnamed/part_000). *)
(*                                                                         *)
(* The bolt file is a tree of buckets.  The model keeps only the buckets   *)
(* the provider creates:                                                   *)
(*   sessions/<id>/subscriptions/<seq>/{topic,qos}                         *)
(*   sessions/<id>/messages/<dir>/<seq>/{type,id,qos,topic,payload}        *)
(*   retained/<seq>/{type,id,qos,topic,payload}                            *)
(* A <seq> bucket holds one record; records are never deleted one by one,  *)
(* so the records of a bucket are a sequence (key i = NextSequence i).     *)
(* Every bolt transaction (db.Update / db.View) is one atomic step: bolt   *)
(* serialises them, and DB.Close waits for running ones.                   *)
(*                                                                         *)
(* Each client goroutine runs one call at a time: the select on db.done    *)
(* (Begin / Reject), then the transaction (Tx).  Shutdown goroutines run   *)
(* impl.Shutdown: lock, select, close(done), wgTx.Wait(), db.Close(),      *)
(* db = nil.                                                               *)
(***************************************************************************)
EXTENDS StoreTypes, SequencesExt

CONSTANTS
    Shutters,    \* goroutines calling impl.Shutdown
    MaxCalls,    \* calls each client makes (bound)
    NoBucket     \* a bucket that does not exist (model value)

VARIABLES
    done,        \* dbStatus.done has been closed
    db,          \* dbStatus.db: "open", "closed" (after Close) or "nil"
    lock,        \* impl.lock holder, or NoArg
    sesRoot,     \* bucket "sessions" exists
    sesBkt,      \* sessions/<id> exists
    subsBkt,     \* sessions/<id>/subscriptions: records or NoBucket
    msgBkt,      \* sessions/<id>/messages: [dir -> records or NoBucket] or NoBucket
    retBkt,      \* retained: records or NoBucket
    pc,          \* client: "idle", "tx" or "panicked"
    req,         \* the client's current (or last) call
    resp,        \* what that call returned
    calls,       \* calls each client has left
    spc,         \* Shutdown goroutine: "idle", "wait", "nil", "done"
    sresp        \* what Shutdown returned

dataVars == <<sesRoot, sesBkt, subsBkt, msgBkt, retBkt>>
vars == <<done, db, lock, dataVars, pc, req, resp, calls, spc, sresp>>

\* No call of the provider calls wgTx.Add, so the WaitGroup stays at zero.
wgTx == 0

(***************************************************************************)
(* Stored message records: putMsg and getMsgs.                             *)
(***************************************************************************)

\* Mutant of putMsg: the "id" key is written even for packet ID 0.
putMsgAlwaysId(m) ==
    LET keys == {"type", "id"}
                \cup (IF m.type = "PUBLISH"
                        THEN {"qos", "topic"} \cup (IF m.payload # "" THEN {"payload"} ELSE {})
                        ELSE {})
    IN [k \in keys |-> CASE k = "type"    -> m.type
                         [] k = "id"      -> m.id
                         [] k = "qos"     -> m.qos
                         [] k = "topic"   -> m.topic
                         [] k = "payload" -> m.payload]

\* putMsg: the keys a message bucket gets.
putMsg(m) ==
    LET keys == {"type"}
                \cup (IF m.id # 0 THEN {"id"} ELSE {})
                \cup (IF m.type = "PUBLISH"
                        THEN {"qos", "topic"} \cup (IF m.payload # "" THEN {"payload"} ELSE {})
                        ELSE {})
    IN [k \in keys |-> CASE k = "type"    -> m.type
                         [] k = "id"      -> m.id
                         [] k = "qos"     -> m.qos
                         [] k = "topic"   -> m.topic
                         [] k = "payload" -> m.payload]

\* message.Type(t).NewMessage(): a fresh message of that type.
NewMessage(t) == [type |-> t, id |-> 0, qos |-> 0, topic |-> NoArg, payload |-> ""]

\* getMsgs, one record: fields are copied back only for *PublishMessage.
getMsg(r) ==
    LET m == NewMessage(r["type"])
        F(k, dflt) == IF k \in DOMAIN r THEN r[k] ELSE dflt
    IN  IF r["type"] = "PUBLISH"
          THEN [m EXCEPT !.id = F("id", @), !.topic = F("topic", @),
                         !.payload = F("payload", @), !.qos = F("qos", @)]
          ELSE m

getMsgs(recs) == [i \in DOMAIN recs |-> getMsg(recs[i])]

\* Appends one record per message, each under a fresh NextSequence key.
AppendMsgs(recs, batch) ==
    (IF recs = NoBucket THEN <<>> ELSE recs) \o [i \in DOMAIN batch |-> putMsg(batch[i])]

(***************************************************************************)
(* subscriptions.Get.  bucket.ForEach calls its callback once per key, and *)
(* each callback rescans the whole bucket with a cursor, assigning         *)
(* res[topic] = qos in key order.                                          *)
(***************************************************************************)
ScanSubs(res, recs) ==
    FoldLeft(LAMBDA m, r : [t \in DOMAIN m \cup {r.topic} |->
                               IF t = r.topic THEN r.qos ELSE m[t]],
             res, recs)

\* Mutant of GetSubs: a topic keeps the QoS of its first record.
GetSubsFirstWins(recs) ==
    FoldLeft(LAMBDA m, r : IF r.topic \in DOMAIN m THEN m
                           ELSE [t \in DOMAIN m \cup {r.topic} |->
                                    IF t = r.topic THEN r.qos ELSE m[t]],
             [t \in {} |-> 0], recs)

GetSubs(recs) ==
    FoldLeft(LAMBDA res, r : ScanSubs(res, recs), [t \in {} |-> 0], recs)

(***************************************************************************)
(* Initial state: NewBoltDB has opened an empty file.                      *)
(***************************************************************************)
Init ==
    /\ done = FALSE
    /\ db = "open"
    /\ lock = NoArg
    /\ sesRoot = FALSE
    /\ sesBkt = [s \in Sessions |-> FALSE]
    /\ subsBkt = [s \in Sessions |-> NoBucket]
    /\ msgBkt = [s \in Sessions |-> NoBucket]
    /\ retBkt = NoBucket
    /\ pc = [c \in Clients |-> "idle"]
    /\ req = [c \in Clients |-> NoArg]
    /\ resp = [c \in Clients |-> NoReply]
    /\ calls = [c \in Clients |-> MaxCalls]
    /\ spc = [h \in Shutters |-> "idle"]
    /\ sresp = [h \in Shutters |-> NoArg]

(***************************************************************************)
(* The select on done that opens every public call (including the         *)
(* Sessions()/Retained()/Subscriptions()/Messages() accessors the caller   *)
(* goes through first).                                                    *)
(***************************************************************************)
Begin(c, r) ==
    /\ pc[c] = "idle"
    /\ calls[c] > 0
    /\ ~done
    /\ calls' = [calls EXCEPT ![c] = @ - 1]
    /\ req' = [req EXCEPT ![c] = r]
    /\ resp' = [resp EXCEPT ![c] = NoReply]
    /\ pc' = [pc EXCEPT ![c] = "tx"]
    /\ UNCHANGED <<done, db, lock, dataVars, spc, sresp>>

Reject(c, r) ==
    /\ pc[c] = "idle"
    /\ calls[c] > 0
    /\ done
    /\ calls' = [calls EXCEPT ![c] = @ - 1]
    /\ req' = [req EXCEPT ![c] = r]
    /\ resp' = [resp EXCEPT ![c] = Reply("ErrNotOpen", NoArg)]
    /\ UNCHANGED <<done, db, lock, dataVars, pc, spc, sresp>>

(***************************************************************************)
(* Transactions on the open database, one action per provider call.  Each *)
(* returns through Finish.                                                 *)
(***************************************************************************)
Running(c, op) == pc[c] = "tx" /\ db = "open" /\ req[c].op = op

Finish(c, reply) ==
    /\ resp' = [resp EXCEPT ![c] = reply]
    /\ pc' = [pc EXCEPT ![c] = "idle"]
    /\ UNCHANGED <<done, db, lock, req, calls, spc, sresp>>

NotFound == Reply("ErrNotFound", NoArg)

\* tx.Bucket("sessions") and sesBucket.Bucket(id) both exist.
SessionFound(s) == sesRoot /\ sesBkt[s]

\* sessions.New: CreateBucketIfNotExists("sessions"), CreateBucket(id).
\* Any error but ErrBucketExists is dropped: the call returns the session.
SessionsNew(c) ==
    LET s == req[c].ses IN
    /\ Running(c, "SessionsNew")
    /\ IF sesBkt[s]
         THEN Finish(c, Reply("ErrAlreadyExists", NoArg)) /\ UNCHANGED dataVars
         ELSE /\ sesRoot' = TRUE
              /\ sesBkt' = [sesBkt EXCEPT ![s] = TRUE]
              /\ Finish(c, Reply("nil", s))
              /\ UNCHANGED <<subsBkt, msgBkt, retBkt>>

\* sessions.Get
SessionsGet(c) ==
    LET s == req[c].ses IN
    /\ Running(c, "SessionsGet")
    /\ Finish(c, IF SessionFound(s) THEN Reply("nil", s) ELSE NotFound)
    /\ UNCHANGED dataVars

\* sessions.GetAll: one session per nested bucket of "sessions".
SessionsGetAll(c) ==
    /\ Running(c, "SessionsGetAll")
    /\ Finish(c, IF sesRoot THEN Reply("nil", {s \in Sessions : sesBkt[s]})
                            ELSE Reply("ErrNotFound", {}))
    /\ UNCHANGED dataVars

\* sessions.Delete: DeleteBucket(id) removes the nested buckets with it;
\* every error is returned as ErrNotFound.
SessionsDelete(c) ==
    LET s == req[c].ses IN
    /\ Running(c, "SessionsDelete")
    /\ IF SessionFound(s)
         THEN /\ sesBkt' = [sesBkt EXCEPT ![s] = FALSE]
              /\ subsBkt' = [subsBkt EXCEPT ![s] = NoBucket]
              /\ msgBkt' = [msgBkt EXCEPT ![s] = NoBucket]
              /\ Finish(c, Reply("nil", NoArg))
              /\ UNCHANGED <<sesRoot, retBkt>>
         ELSE Finish(c, NotFound) /\ UNCHANGED dataVars

\* subscriptions.Add: one record per map entry, in Go's map iteration
\* order, which is unspecified.
SubscriptionsAdd(c) ==
    LET s == req[c].ses
        a == req[c].arg
    IN
    /\ Running(c, "SubscriptionsAdd")
    /\ IF SessionFound(s)
         THEN \E order \in SetToSeqs(DOMAIN a) :
                /\ subsBkt' = [subsBkt EXCEPT ![s] =
                       (IF @ = NoBucket THEN <<>> ELSE @)
                       \o [i \in DOMAIN order |-> [topic |-> order[i], qos |-> a[order[i]]]]]
                /\ Finish(c, Reply("nil", NoArg))
                /\ UNCHANGED <<sesRoot, sesBkt, msgBkt, retBkt>>
         ELSE Finish(c, NotFound) /\ UNCHANGED dataVars

\* subscriptions.Get
SubscriptionsGet(c) ==
    LET s == req[c].ses IN
    /\ Running(c, "SubscriptionsGet")
    /\ Finish(c, IF SessionFound(s) /\ subsBkt[s] # NoBucket
                   THEN Reply("nil", GetSubs(subsBkt[s])) ELSE NotFound)
    /\ UNCHANGED dataVars

\* subscriptions.Delete: bolt's ErrBucketNotFound is returned as it is.
SubscriptionsDelete(c) ==
    LET s == req[c].ses IN
    /\ Running(c, "SubscriptionsDelete")
    /\ CASE ~SessionFound(s) ->
              Finish(c, NotFound) /\ UNCHANGED dataVars
         [] subsBkt[s] = NoBucket ->
              Finish(c, Reply("ErrBucketNotFound", NoArg)) /\ UNCHANGED dataVars
         [] OTHER ->
              /\ subsBkt' = [subsBkt EXCEPT ![s] = NoBucket]
              /\ Finish(c, Reply("nil", NoArg))
              /\ UNCHANGED <<sesRoot, sesBkt, msgBkt, retBkt>>

\* messages.Store: CreateBucketIfNotExists("messages"), then (dir), then
\* one record per message.
MessagesStore(c) ==
    LET s == req[c].ses
        d == req[c].dir
    IN
    /\ Running(c, "MessagesStore")
    /\ IF SessionFound(s)
         THEN /\ msgBkt' = [msgBkt EXCEPT ![s] =
                   LET mb == IF @ = NoBucket THEN [x \in Dirs |-> NoBucket] ELSE @
                   IN  [mb EXCEPT ![d] = AppendMsgs(@, req[c].arg)]]
              /\ Finish(c, Reply("nil", NoArg))
              /\ UNCHANGED <<sesRoot, sesBkt, subsBkt, retBkt>>
         ELSE Finish(c, NotFound) /\ UNCHANGED dataVars

\* messages.Load: a missing direction bucket leaves that list empty, and
\* getMsgs' error is dropped.
MessagesLoad(c) ==
    LET s == req[c].ses IN
    /\ Running(c, "MessagesLoad")
    /\ Finish(c, IF SessionFound(s) /\ msgBkt[s] # NoBucket
                   THEN Reply("nil", [d \in Dirs |->
                           IF msgBkt[s][d] = NoBucket THEN <<>> ELSE getMsgs(msgBkt[s][d])])
                   ELSE NotFound)
    /\ UNCHANGED dataVars

\* messages.Delete: bolt's ErrBucketNotFound is returned as it is.
MessagesDelete(c) ==
    LET s == req[c].ses IN
    /\ Running(c, "MessagesDelete")
    /\ CASE ~SessionFound(s) ->
              Finish(c, NotFound) /\ UNCHANGED dataVars
         [] msgBkt[s] = NoBucket ->
              Finish(c, Reply("ErrBucketNotFound", NoArg)) /\ UNCHANGED dataVars
         [] OTHER ->
              /\ msgBkt' = [msgBkt EXCEPT ![s] = NoBucket]
              /\ Finish(c, Reply("nil", NoArg))
              /\ UNCHANGED <<sesRoot, sesBkt, subsBkt, retBkt>>

\* retained.Load
RetainedLoad(c) ==
    /\ Running(c, "RetainedLoad")
    /\ Finish(c, IF retBkt # NoBucket THEN Reply("nil", getMsgs(retBkt))
                                      ELSE Reply("ErrNotFound", <<>>))
    /\ UNCHANGED dataVars

\* retained.Store: appends; it never replaces an earlier retained message.
RetainedStore(c) ==
    /\ Running(c, "RetainedStore")
    /\ retBkt' = AppendMsgs(retBkt, req[c].arg)
    /\ Finish(c, Reply("nil", NoArg))
    /\ UNCHANGED <<sesRoot, sesBkt, subsBkt, msgBkt>>

\* retained.Delete: ErrBucketNotFound is translated to ErrNotFound.
RetainedDelete(c) ==
    /\ Running(c, "RetainedDelete")
    /\ IF retBkt # NoBucket
         THEN retBkt' = NoBucket /\ Finish(c, Reply("nil", NoArg))
              /\ UNCHANGED <<sesRoot, sesBkt, subsBkt, msgBkt>>
         ELSE Finish(c, NotFound) /\ UNCHANGED dataVars

(***************************************************************************)
(* A transaction started after Shutdown closed the database: bolt's       *)
(* Begin fails with ErrDatabaseNotOpen.  sessions.New drops that error    *)
(* and returns a session; sessions.Delete turns it into ErrNotFound; the  *)
(* others return it.                                                       *)
(***************************************************************************)
TxOnClosedDb(c) ==
    /\ pc[c] = "tx"
    /\ db = "closed"
    /\ Finish(c, CASE req[c].op = "SessionsNew"    -> Reply("nil", req[c].ses)
                   [] req[c].op = "SessionsDelete" -> NotFound
                   [] OTHER -> Reply("ErrDatabaseNotOpen", NoArg))
    /\ UNCHANGED dataVars

\* A transaction started after Shutdown set db to nil: (*bolt.DB)(nil).Update
\* dereferences nil and the goroutine panics.
TxOnNilDb(c) ==
    /\ pc[c] = "tx"
    /\ db = "nil"
    /\ resp' = [resp EXCEPT ![c] = Reply("panic", NoArg)]
    /\ pc' = [pc EXCEPT ![c] = "panicked"]
    /\ UNCHANGED <<done, db, lock, dataVars, req, calls, spc, sresp>>

(***************************************************************************)
(* impl.Shutdown, holding impl.lock throughout.                            *)
(***************************************************************************)
\* Lock, then the select: done already closed returns ErrNotOpen.
ShutdownNotOpen(h) ==
    /\ spc[h] = "idle"
    /\ lock = NoArg
    /\ done
    /\ spc' = [spc EXCEPT ![h] = "done"]
    /\ sresp' = [sresp EXCEPT ![h] = "ErrNotOpen"]
    /\ UNCHANGED <<done, db, lock, dataVars, pc, req, resp, calls>>

\* Lock, the select, close(done).
ShutdownClose(h) ==
    /\ spc[h] = "idle"
    /\ lock = NoArg
    /\ ~done
    /\ lock' = h
    /\ done' = TRUE
    /\ spc' = [spc EXCEPT ![h] = "wait"]
    /\ UNCHANGED <<db, dataVars, pc, req, resp, calls, sresp>>

\* wgTx.Wait() then db.Close().
ShutdownRelease(h) ==
    /\ spc[h] = "wait"
    /\ wgTx = 0
    /\ db' = "closed"
    /\ spc' = [spc EXCEPT ![h] = "nil"]
    /\ UNCHANGED <<done, lock, dataVars, pc, req, resp, calls, sresp>>

\* db = nil, return Close's error, unlock.
ShutdownForget(h) ==
    /\ spc[h] = "nil"
    /\ db' = "nil"
    /\ lock' = NoArg
    /\ spc' = [spc EXCEPT ![h] = "done"]
    /\ sresp' = [sresp EXCEPT ![h] = "nil"]
    /\ UNCHANGED <<done, dataVars, pc, req, resp, calls>>

\* Every goroutine has returned (or panicked): the program may stop here.
Terminated ==
    /\ \A c \in Clients : pc[c] # "tx" /\ (pc[c] = "panicked" \/ calls[c] = 0)
    /\ \A h \in Shutters : spc[h] = "done"
    /\ UNCHANGED vars

Tx(c) ==
    \/ SessionsNew(c) \/ SessionsGet(c) \/ SessionsGetAll(c) \/ SessionsDelete(c)
    \/ SubscriptionsAdd(c) \/ SubscriptionsGet(c) \/ SubscriptionsDelete(c)
    \/ MessagesStore(c) \/ MessagesLoad(c) \/ MessagesDelete(c)
    \/ RetainedLoad(c) \/ RetainedStore(c) \/ RetainedDelete(c)
    \/ TxOnClosedDb(c) \/ TxOnNilDb(c)

\* The steps of one impl.Shutdown call.
ShutdownSteps(h) ==
    ShutdownNotOpen(h) \/ ShutdownClose(h) \/ ShutdownRelease(h) \/ ShutdownForget(h)

Next ==
    \/ \E c \in Clients, r \in Requests : Begin(c, r) \/ Reject(c, r)
    \/ \E c \in Clients : Tx(c)
    \/ \E h \in Shutters : ShutdownSteps(h)
    \/ Terminated

Spec == Init /\ [][Next]_vars

(***************************************************************************)
(* Properties                                                              *)
(***************************************************************************)
\* A message bucket: always a "type" key, a non-zero 16-bit "id" if any.
IsStoredRecords(recs) ==
    \A i \in DOMAIN recs :
        LET r == recs[i] IN
        /\ "type" \in DOMAIN r
        /\ DOMAIN r \subseteq {"type", "id", "qos", "topic", "payload"}
        /\ "id" \in DOMAIN r => r["id"] \in 1..65535

TypeOK ==
    /\ done \in BOOLEAN
    /\ db \in {"open", "closed", "nil"}
    /\ lock \in Shutters \cup {NoArg}
    /\ sesRoot \in BOOLEAN
    /\ sesBkt \in [Sessions -> BOOLEAN]
    /\ \A s \in Sessions :
          /\ subsBkt[s] = NoBucket \/ subsBkt[s] \in Seq([topic: Topics, qos: QoS])
          /\ msgBkt[s] = NoBucket
             \/ \A d \in Dirs : msgBkt[s][d] = NoBucket \/ IsStoredRecords(msgBkt[s][d])
    /\ retBkt = NoBucket \/ IsStoredRecords(retBkt)
    /\ pc \in [Clients -> {"idle", "tx", "panicked"}]
    /\ req \in [Clients -> Requests \cup {NoArg}]
    /\ calls \in [Clients -> 0..MaxCalls]
    /\ spc \in [Shutters -> {"idle", "wait", "nil", "done"}]

(***************************************************************************)
(* Refinement of the provider contract.  The buckets are read the way      *)
(* spec section 6 lays them out, independently of getMsgs and              *)
(* subscriptions.Get: a record's fields are those present (an absent id is *)
(* 0, an absent payload empty), and a topic's QoS is the one in its last   *)
(* (highest-sequence) subscription record.                                 *)
(***************************************************************************)
Absent == NoBucket

RecordMsg(r) ==
    LET F(k, dflt) == IF k \in DOMAIN r THEN r[k] ELSE dflt
    IN  [type |-> r["type"], id |-> F("id", 0), qos |-> F("qos", 0),
         topic |-> F("topic", NoArg), payload |-> F("payload", "")]

RecordsMsgs(recs) ==
    IF recs = NoBucket THEN <<>> ELSE [i \in DOMAIN recs |-> RecordMsg(recs[i])]

LatestQoS(recs) ==
    [t \in {recs[i].topic : i \in DOMAIN recs} |->
        recs[CHOOSE i \in DOMAIN recs :
                recs[i].topic = t /\ \A j \in DOMAIN recs : j > i => recs[j].topic # t].qos]

\* What a caller sees of a reply: failures of the closed or nil database
\* are the contract's "fail"; values that come with an error are dropped.
SeenReply(rp) ==
    CASE rp = NoReply -> NoArg
      [] rp.err \in {"ErrDatabaseNotOpen", "panic"} -> Reply("fail", NoArg)
      [] rp.err # "nil" -> Reply(rp.err, NoArg)
      [] OTHER -> rp

Contract == INSTANCE PersistenceStore WITH
    aSessions <- IF sesRoot THEN {s \in Sessions : sesBkt[s]} ELSE Absent,
    aSubs     <- [s \in Sessions |->
                    IF subsBkt[s] = NoBucket THEN Absent ELSE LatestQoS(subsBkt[s])],
    aMsgs     <- [s \in Sessions |->
                    IF msgBkt[s] = NoBucket THEN Absent
                    ELSE [d \in Dirs |-> RecordsMsgs(msgBkt[s][d])]],
    aRetained <- IF retBkt = NoBucket THEN Absent ELSE RecordsMsgs(retBkt),
    aClosed   <- done,
    aPending  <- [c \in Clients |-> IF pc[c] = "tx" THEN req[c] ELSE NoArg],
    aResult   <- [c \in Clients |->
                    IF req[c] # NoArg /\ req[c].op \in QueryOps
                      THEN SeenReply(resp[c]) ELSE NoArg]

\* The provider implements its contract: every transaction is one atomic
\* step of the abstract store, a query returns what the stored buckets
\* hold (subscriptions.Get's nested ForEach/cursor scan, getMsgs' decoding
\* of each record), deleting a session removes its nested buckets, and a
\* call can only fail for the closed database after Shutdown has begun.
StoreRefinement == Contract!Spec

\* Spec 5: Shutdown releases the database only after every transaction in
\* flight has finished, so no call that passed the select on done meets a
\* closed (or nil) database.  impl.Shutdown relies on wgTx.Wait() for this.
ShutdownDrainsTransactions ==
    db # "open" => \A c \in Clients : pc[c] # "tx"

\* sessions.New reports success only when the session bucket exists after
\* its transaction.
NewReportsPersisted ==
    [][\A c \in Clients :
         (pc[c] = "tx" /\ req[c].op = "SessionsNew" /\ pc'[c] = "idle"
          /\ resp'[c].err = "nil") => sesBkt'[req[c].ses]]_vars

\* Spec 7: a provider call fails only with the shared error kinds, never
\* with a bolt error value.
SharedErrors == {"ErrNotFound", "ErrAlreadyExists", "ErrNotOpen"}

ErrorsTranslated ==
    \A c \in Clients : resp[c].err \in SharedErrors \cup {"nil", "none", "panic"}
=============================================================================
