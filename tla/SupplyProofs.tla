----------------------------- MODULE SupplyProofs -----------------------------
(***************************************************************************)
(* Proofs about the storage port, about the tools catalog above it and     *)
(* about the mirrors' cache.                                               *)
(*                                                                         *)
(* The port: both media implement the abstract store Objects, because what *)
(* is under a key changes only when a whole put arrives or a key is        *)
(* removed, and a reader keeps the object it opened.                       *)
(*                                                                         *)
(* The catalog: with one booting process a row names an object that is in  *)
(* the store, because a writer's new key is known to nobody else until its *)
(* row is committed and an object is removed only after its row has lost   *)
(* it for ever.                                                            *)
(*                                                                         *)
(* The mirrors: an entry is written whole and under its own digest, a blob *)
(* is served for a repository that lists it, and whoever stores an entry   *)
(* weighs the directory afterwards.                                        *)
(***************************************************************************)
EXTENDS Catalog, ObjectStore, Mirror, FiniteSetTheorems, TLAPS

-----------------------------------------------------------------------------
(* The storage port.                                                       *)

Stored == [put : 1 .. MaxCalls, n : {Chunks}, at : 0 .. MaxTicks]

Call == [pc : {"idle", "stream", "read", "digest", "purge"}, key : StoreKeys \cup {""},
         put : 0 .. MaxCalls, n : 0 .. Chunks, todo : SUBSET StoreKeys,
         handle : Stored \cup {NoObject},
         answer : {"", "stored", "failed", "missing", "read", "digest", "deleted"},
         digest : 0 .. MaxCalls]

Medium == [StoreKeys -> Stored \cup {NoObject}]

Memo == [stamp : StoreKeys \X (0 .. MaxTicks) \X {Chunks}, digest : 1 .. MaxCalls]

StoreTypes ==
    /\ backend \in {"local", "s3"} /\ medium \in Medium
    /\ calls \in [StoreCallers -> Call] /\ memo \subseteq Memo /\ used \subseteq StoreKeys
    /\ made \in 0 .. MaxCalls /\ ticks \in 0 .. MaxTicks

\* What a call under way works on.
WorksOn(call) ==
    /\ call.pc = "stream" => call.key \in StoreKeys /\ call.put \in 1 .. MaxCalls
    /\ call.pc = "read" => call.handle \in Stored
    /\ call.pc = "digest" => call.key \in StoreKeys /\ call.handle \in Stored

StoreInv == StoreTypes /\ \A c \in StoreCallers : WorksOn(calls[c])

\* A key some put has named and none is writing any more.
Done(k) == k \in used /\ \A c \in StoreCallers : In(c, "stream") => calls[c].key # k

\* While keys are never used twice there is nothing under a key that is being
\* written, so that whatever is found, remembered or told of a key stays true of it.
Settled ==
    /\ \A c, d \in StoreCallers :
           In(c, "stream") /\ In(d, "stream") /\ calls[c].key = calls[d].key => c = d
    /\ \A c \in StoreCallers :
           In(c, "stream") => calls[c].key \in used /\ medium[calls[c].key] = NoObject
    /\ \A k \in StoreKeys : medium[k] # NoObject => k \in used
    /\ \A m \in memo :
           /\ Done(m.stamp[1])
           /\ medium[m.stamp[1]] # NoObject => m.digest = medium[m.stamp[1]].put
    /\ \A c \in StoreCallers : In(c, "digest") => Done(calls[c].key)
    /\ \A c \in StoreCallers :
           calls[c].answer = "digest" =>
               /\ calls[c].key \in StoreKeys /\ Done(calls[c].key)
               /\ medium[calls[c].key] # NoObject => calls[c].digest = medium[calls[c].key].put

DigestInv == FreshKeys => Settled

-----------------------------------------------------------------------------
(* A step changes one call, and the medium at the keys it names.           *)

LEMMA FreeIsCall ==
    /\ Free \in Call /\ WorksOn(Free) /\ Free.pc = "idle" /\ Free.answer = ""
    /\ NoObject \notin Stored
BY ObjectStoreAssumption DEF Free, Call, NoObject, Stored, WorksOn

LEMMA Turned ==
    ASSUME StoreInv, NEW c \in StoreCallers, NEW new \in Call, Turns(c, new), WorksOn(new)
    PROVE  /\ calls' \in [StoreCallers -> Call]
           /\ calls'[c] = new
           /\ \A d \in StoreCallers : d # c => calls'[d] = calls[d]
           /\ \A d \in StoreCallers : WorksOn(calls[d])'
<1>1. calls \in [StoreCallers -> Call] /\ calls' = [calls EXCEPT ![c] = new]
  BY DEF StoreInv, StoreTypes, Turns
<1>2. /\ calls' \in [StoreCallers -> Call]
      /\ calls'[c] = new
      /\ \A d \in StoreCallers : d # c => calls'[d] = calls[d]
  BY <1>1
<1>3. ASSUME NEW d \in StoreCallers PROVE WorksOn(calls'[d])
  BY <1>2 DEF StoreInv
<1>4. \A d \in StoreCallers : WorksOn(calls[d])'
  BY <1>3 DEF WorksOn
<1> QED BY <1>2, <1>4

\* The calls that begin, go on and end.
LEMMA Began ==
    ASSUME StoreInv, NEW c \in StoreCallers, NEW new, Begins(c, new)
    PROVE  Turns(c, new) /\ made + 1 \in 1 .. MaxCalls /\ made' \in 0 .. MaxCalls
BY ObjectStoreAssumption DEF StoreInv, StoreTypes, Begins

LEMMA Answered ==
    ASSUME StoreInv, NEW c \in StoreCallers,
           NEW what \in {"stored", "failed", "missing", "read"}, Answers(c, what)
    PROVE  \E new \in Call : /\ Turns(c, new) /\ WorksOn(new)
                             /\ new.pc = "idle" /\ new.answer = what
<1> DEFINE new == [calls[c] EXCEPT !.pc = "idle", !.answer = what, !.handle = NoObject]
<1>1. calls[c] \in Call
  BY DEF StoreInv, StoreTypes
<1>2. new \in Call /\ new.pc = "idle" /\ new.answer = what
  BY <1>1 DEF Call
<1> QED BY <1>2 DEF Answers, WorksOn

\* The object a finished put leaves is whole.
LEMMA WholeStored ==
    ASSUME StoreInv, NEW c \in StoreCallers, In(c, "stream"), calls[c].n = Chunks
    PROVE  Whole(c) \in Stored /\ Whole(c).put = calls[c].put /\ calls[c].key \in StoreKeys
BY DEF StoreInv, StoreTypes, WorksOn, Whole, Stored, In

LEMMA LackingTyped ==
    ASSUME StoreInv, NEW ks \in SUBSET StoreKeys
    PROVE  /\ Lacking(ks) \in Medium
           /\ \A k \in StoreKeys : Lacking(ks)[k] = (IF k \in ks THEN NoObject ELSE medium[k])
BY DEF StoreInv, StoreTypes, Lacking, Medium

LEMMA StoreTypesHold == StoreSpec => []StoreInv
<1>1. StoreInit => StoreInv
  <2> SUFFICES ASSUME StoreInit PROVE StoreInv
    OBVIOUS
  <2>1. medium \in Medium
    BY DEF StoreInit, Medium
  <2>2. calls \in [StoreCallers -> Call] /\ \A c \in StoreCallers : calls[c] = Free
    BY FreeIsCall DEF StoreInit
  <2>3. 0 \in 0 .. MaxCalls /\ 0 \in 0 .. MaxTicks
    BY ObjectStoreAssumption
  <2> QED BY <2>1, <2>2, <2>3, FreeIsCall, ObjectStoreAssumption DEF StoreInit, StoreInv, StoreTypes
<1>2. StoreInv /\ [StoreNext]_storeVars => StoreInv'
  <2> SUFFICES ASSUME StoreInv, [StoreNext]_storeVars PROVE StoreInv'
    OBVIOUS
  <2>0. StoreTypes /\ \A c \in StoreCallers : calls[c] \in Call /\ WorksOn(calls[c])
    BY DEF StoreInv, StoreTypes
  <2>a. ASSUME NEW c \in StoreCallers, NEW new \in Call, Turns(c, new), WorksOn(new),
               backend' = backend, medium' \in Medium, memo' \subseteq Memo, used' \subseteq StoreKeys,
               made' \in 0 .. MaxCalls, ticks' = ticks
        PROVE  StoreInv'
    BY <2>0, <2>a, Turned DEF StoreInv, StoreTypes
  <2>1. CASE ClockTicks
    <3>1. ticks' \in 0 .. MaxTicks
      BY <2>0, <2>1, ObjectStoreAssumption DEF ClockTicks, StoreTypes
    <3> QED BY <2>0, <2>1, <3>1 DEF ClockTicks, StoreInv, StoreTypes, WorksOn
  <2>2. CASE Dies
    <3>1. calls' \in [StoreCallers -> Call] /\ \A c \in StoreCallers : calls'[c] = Free
      BY <2>2, FreeIsCall DEF Dies
    <3> QED BY <2>0, <2>2, <3>1, FreeIsCall DEF Dies, StoreInv, StoreTypes
  <2>3. ASSUME NEW c \in StoreCallers, NEW k \in StoreKeys, store_put(c, k) PROVE StoreInv'
    <3> DEFINE new == [Free EXCEPT !.pc = "stream", !.key = k, !.put = made + 1]
    <3>1. Begins(c, new)
      BY <2>3 DEF store_put
    <3>2. Turns(c, new) /\ made + 1 \in 1 .. MaxCalls /\ made' \in 0 .. MaxCalls
      BY <3>1, Began
    <3>3. made + 1 \in 0 .. MaxCalls
      BY <3>2, ObjectStoreAssumption
    <3>4. new \in Call /\ WorksOn(new)
      BY <3>2, <3>3, FreeIsCall DEF Call, WorksOn
    <3> HIDE DEF new
    <3> QED BY <2>0, <2>3, <2>a, <3>2, <3>4 DEF store_put, StoreTypes
  <2>4. ASSUME NEW c \in StoreCallers, atomic_write_stream(c) PROVE StoreInv'
    <3> DEFINE new == [calls[c] EXCEPT !.n = @ + 1]
    <3>0. calls[c] \in Call /\ WorksOn(calls[c]) /\ calls[c].n \in 0 .. Chunks
      BY <2>0 DEF Call
    <3>1. calls[c].n + 1 \in 0 .. Chunks
      BY <2>4, <3>0, ObjectStoreAssumption DEF atomic_write_stream
    <3>2. new \in Call /\ WorksOn(new)
      BY <3>0, <3>1 DEF Call, WorksOn
    <3>3. Turns(c, new)
      BY <2>4 DEF atomic_write_stream
    <3> HIDE DEF new
    <3> QED BY <2>0, <2>4, <2>a, <3>2, <3>3 DEF atomic_write_stream, StoreTypes
  <2>5. ASSUME NEW c \in StoreCallers, StreamEnds(c) \/ Breaks(c) PROVE StoreInv'
    BY <2>0, <2>5, <2>a, Answered DEF StreamEnds, Breaks, StoreTypes
  <2>6. ASSUME NEW c \in StoreCallers, replace(c) \/ put_object(c) PROVE StoreInv'
    <3>1. Whole(c) \in Stored
      BY <2>6, WholeStored DEF replace, put_object
    <3>2. medium' \in Medium
      BY <2>0, <2>6, <3>1 DEF replace, put_object, StoreTypes, Medium
    <3>3. PICK what \in {"stored", "failed"} : Answers(c, what)
      BY <2>6 DEF replace, put_object
    <3>4. PICK new \in Call : Turns(c, new) /\ WorksOn(new)
      BY <3>3, Answered
    <3> QED BY <2>0, <2>6, <2>a, <3>2, <3>4 DEF replace, put_object, StoreTypes
  <2>7. ASSUME NEW c \in StoreCallers, NEW k \in StoreKeys, open(c, k) \/ stat(c, k) PROVE StoreInv'
    <3>1. PICK new : /\ Begins(c, new)
                     /\ \/ new = [Free EXCEPT !.answer = "missing"]
                        \/ /\ medium[k] # NoObject
                           /\ \E pc \in {"read", "digest"} :
                                new = [Free EXCEPT !.pc = pc, !.key = k, !.handle = medium[k]]
      BY <2>7 DEF open, stat
    <3>2. medium[k] \in Stored \cup {NoObject}
      BY <2>0 DEF StoreTypes, Medium
    <3>3. new \in Call /\ WorksOn(new)
      BY <3>1, <3>2, FreeIsCall DEF Call, WorksOn
    <3>4. Turns(c, new) /\ made' \in 0 .. MaxCalls
      BY <3>1, Began
    <3> QED BY <2>0, <2>7, <2>a, <3>3, <3>4 DEF open, stat, StoreTypes
  <2>8. ASSUME NEW c \in StoreCallers, read(c) PROVE StoreInv'
    <3>1. \E new \in Call : Turns(c, new) /\ WorksOn(new)
      <4>1. CASE Answers(c, "read")
        BY <4>1, Answered
      <4>2. CASE calls[c].n < calls[c].handle.n /\ Turns(c, [calls[c] EXCEPT !.n = @ + 1])
        <5>1. calls[c].handle.n = Chunks /\ calls[c] \in Call
          BY <2>0, <2>8 DEF read, WorksOn, In, Stored
        <5>4. calls[c].n \in 0 .. Chunks
          BY <5>1 DEF Call
        <5>2. calls[c].n + 1 \in 0 .. Chunks
          BY <4>2, <5>1, <5>4, ObjectStoreAssumption
        <5>3. [calls[c] EXCEPT !.n = @ + 1] \in Call /\ WorksOn([calls[c] EXCEPT !.n = @ + 1])
          BY <2>0, <5>1, <5>2 DEF Call, WorksOn
        <5> QED BY <4>2, <5>3
      <4> QED BY <2>8, <4>1, <4>2 DEF read
    <3> QED BY <2>0, <2>8, <2>a, <3>1 DEF read, StoreTypes
  <2>9. ASSUME NEW c \in StoreCallers, digest_of(c) PROVE StoreInv'
    <3> DEFINE stamp == _stamp(calls[c].key, calls[c].handle)
               new(d) == [calls[c] EXCEPT !.pc = "idle", !.answer = "digest", !.digest = d, !.handle = NoObject]
    <3>1. calls[c].key \in StoreKeys /\ calls[c].handle \in Stored /\ calls[c] \in Call
      BY <2>0, <2>9 DEF digest_of, WorksOn, In
    <3>2. stamp \in StoreKeys \X (0 .. MaxTicks) \X {Chunks}
      BY <3>1 DEF _stamp, Stored
    <3>3. \A d \in 1 .. MaxCalls : new(d) \in Call /\ WorksOn(new(d))
      <4> TAKE d \in 1 .. MaxCalls
      <4>1. d \in 0 .. MaxCalls
        BY ObjectStoreAssumption
      <4> QED BY <3>1, <4>1 DEF Call, WorksOn
    <3>4. \A m \in memo : m.digest \in 1 .. MaxCalls
      BY <2>0 DEF StoreTypes, Memo
    <3>5. medium[calls[c].key] # NoObject => medium[calls[c].key].put \in 1 .. MaxCalls
      BY <2>0, <3>1 DEF StoreTypes, Medium, Stored
    <3>6. \A d \in 1 .. MaxCalls : [stamp |-> stamp, digest |-> d] \in Memo
      BY <3>2 DEF Memo
    <3>7. CASE Answers(c, "missing") /\ UNCHANGED memo
      BY <2>0, <2>9, <2>a, <3>7, Answered DEF digest_of, StoreTypes
    <3>8. CASE UNCHANGED memo /\ \E m \in memo : Turns(c, new(m.digest))
      <4> HIDE DEF new
      <4> QED BY <2>0, <2>9, <2>a, <3>3, <3>4, <3>8 DEF digest_of, StoreTypes
    <3>9. CASE /\ medium[calls[c].key] # NoObject /\ Turns(c, new(medium[calls[c].key].put))
               /\ memo' = memo \cup {[stamp |-> stamp, digest |-> medium[calls[c].key].put]}
      <4> HIDE DEF new, stamp
      <4>1. memo' \subseteq Memo
        BY <2>0, <3>5, <3>6, <3>9 DEF StoreTypes
      <4> QED BY <2>0, <2>9, <2>a, <3>3, <3>5, <3>9, <4>1 DEF digest_of, StoreTypes
    <3> QED BY <2>9, <3>7, <3>8, <3>9 DEF digest_of, sha256_of
  <2>10. ASSUME NEW c \in StoreCallers, NEW k \in StoreKeys, delete(c, k) PROVE StoreInv'
    <3>1. medium' \in Medium
      BY <2>0, <2>10, LackingTyped DEF delete, StoreTypes
    <3>2. PICK what \in {"deleted", "failed"} : Begins(c, [Free EXCEPT !.answer = what])
      BY <2>10 DEF delete
    <3>3. [Free EXCEPT !.answer = what] \in Call /\ WorksOn([Free EXCEPT !.answer = what])
      BY FreeIsCall DEF Call, WorksOn
    <3>4. Turns(c, [Free EXCEPT !.answer = what]) /\ made' \in 0 .. MaxCalls
      BY <3>2, Began
    <3> QED BY <2>0, <2>10, <2>a, <3>1, <3>3, <3>4 DEF delete, StoreTypes
  <2>11. ASSUME NEW c \in StoreCallers, NEW ks \in SUBSET StoreKeys, delete_many(c, ks) PROVE StoreInv'
    <3>1. [Free EXCEPT !.pc = "purge", !.todo = ks] \in Call /\ WorksOn([Free EXCEPT !.pc = "purge", !.todo = ks])
      BY FreeIsCall DEF Call, WorksOn
    <3>2. Turns(c, [Free EXCEPT !.pc = "purge", !.todo = ks]) /\ made' \in 0 .. MaxCalls
      BY <2>11, Began DEF delete_many
    <3> QED BY <2>0, <2>11, <2>a, <3>1, <3>2 DEF delete_many, StoreTypes
  <2>12. ASSUME NEW c \in StoreCallers, unlink(c) \/ delete_objects(c) PROVE StoreInv'
    <3>1. calls[c].todo \in SUBSET StoreKeys /\ calls[c] \in Call /\ WorksOn(calls[c])
      BY <2>0 DEF Call
    <3>6. \E ks \in SUBSET StoreKeys : medium' \in {medium, Lacking(ks)}
      BY <2>12, <3>1 DEF unlink, delete_objects
    <3>2. medium' \in Medium
      BY <2>0, <3>6, LackingTyped DEF StoreTypes
    <3>3. \A what \in {"deleted", "failed"} :
              [Free EXCEPT !.answer = what] \in Call /\ WorksOn([Free EXCEPT !.answer = what])
      BY FreeIsCall DEF Call, WorksOn
    <3>4. \A ks : /\ [calls[c] EXCEPT !.todo = @ \ ks] \in Call
                  /\ WorksOn([calls[c] EXCEPT !.todo = @ \ ks])
      BY <3>1 DEF Call, WorksOn
    <3>5. \E new \in Call : Turns(c, new) /\ WorksOn(new)
      BY <2>12, <3>3, <3>4 DEF unlink, delete_objects, Purged
    <3> QED BY <2>0, <2>12, <2>a, <3>2, <3>5 DEF unlink, delete_objects, StoreTypes
  <2>13. CASE UNCHANGED storeVars
    BY <2>0, <2>13 DEF storeVars, StoreInv, StoreTypes, WorksOn
  <2> QED
    BY <2>1, <2>2, <2>3, <2>4, <2>5, <2>6, <2>7, <2>8, <2>9, <2>10, <2>11, <2>12, <2>13
    DEF StoreNext
<1> QED BY <1>1, <1>2, PTL DEF StoreSpec

-----------------------------------------------------------------------------
(* Both media implement the port.                                          *)

PortStep == Port!Next \/ UNCHANGED <<medium, openedBar>>

LEMMA SameOpened ==
    ASSUME StoreInv, NEW c \in StoreCallers, NEW new \in Call, Turns(c, new), WorksOn(new),
           calls[c].pc = "read" => new.pc = "read" /\ new.handle = calls[c].handle,
           new.pc = "read" => calls[c].pc = "read"
    PROVE  openedBar' = openedBar
<1>1. \A d \in StoreCallers : d # c => calls'[d] = calls[d]
  BY Turned
<1>2. calls'[c] = new
  BY Turned
<1> QED BY <1>1, <1>2 DEF openedBar, In

\* A reader that ends closes what it has open; another caller has nothing open.
LEMMA ClosedOne ==
    ASSUME StoreInv, NEW c \in StoreCallers, UNCHANGED medium,
           NEW what \in {"stored", "failed", "missing", "read"}, Answers(c, what)
    PROVE  PortStep
<1>1. PICK new \in Call : Turns(c, new) /\ WorksOn(new) /\ new.pc = "idle"
  BY Answered
<1>2. calls'[c].pc = "idle" /\ \A d \in StoreCallers : d # c => calls'[d] = calls[d]
  BY <1>1, Turned
<1>3. openedBar' = [d \in StoreCallers |-> IF d \in {c} THEN NoObject ELSE openedBar[d]]
  BY <1>2 DEF openedBar, In
<1>4. Port!Close({c})
  BY <1>3 DEF Port!Close
<1> QED BY <1>4 DEF PortStep, Port!Next

LEMMA AnsweredElsewhere ==
    ASSUME StoreInv, NEW c \in StoreCallers, calls[c].pc # "read",
           NEW what \in {"stored", "failed", "missing", "read"}, Answers(c, what)
    PROVE  openedBar' = openedBar
<1>1. PICK new \in Call : Turns(c, new) /\ WorksOn(new) /\ new.pc = "idle"
  BY Answered
<1> QED BY <1>1, SameOpened

LEMMA Removes ==
    ASSUME NEW ks \in SUBSET StoreKeys, medium' = Lacking(ks), openedBar' = openedBar
    PROVE  PortStep
<1>1. Port!Remove(ks)
  BY DEF Port!Remove, Lacking
<1> QED BY <1>1 DEF PortStep, Port!Next

LEMMA StoreStep == StoreInv /\ [StoreNext]_storeVars => PortStep
<1> SUFFICES ASSUME StoreInv, [StoreNext]_storeVars PROVE PortStep
  OBVIOUS
<1>0. /\ medium \in Medium /\ \A c \in StoreCallers : calls[c] \in Call /\ WorksOn(calls[c])
      /\ made \in 0 .. MaxCalls
  BY DEF StoreInv, StoreTypes
<1>1. CASE ClockTicks
  BY <1>1 DEF ClockTicks, PortStep, openedBar, In
<1>2. CASE Dies
  <2>1. openedBar' = [d \in StoreCallers |-> NoObject]
    BY <1>2, FreeIsCall DEF Dies, openedBar, In
  <2>2. Port!Close(StoreCallers)
    BY <1>2, <2>1 DEF Dies, Port!Close
  <2> QED BY <2>2 DEF PortStep, Port!Next
<1>3. ASSUME NEW c \in StoreCallers, NEW k \in StoreKeys, store_put(c, k) PROVE PortStep
  <2> DEFINE new == [Free EXCEPT !.pc = "stream", !.key = k, !.put = made + 1]
  <2>1. Begins(c, new) /\ calls[c].pc = "idle"
    BY <1>3 DEF store_put, Begins, In
  <2>2. Turns(c, new) /\ made + 1 \in 1 .. MaxCalls
    BY <2>1, Began
  <2>3. made + 1 \in 0 .. MaxCalls
    BY <2>2, ObjectStoreAssumption
  <2>4. new \in Call /\ WorksOn(new) /\ new.pc = "stream"
    BY <2>2, <2>3, FreeIsCall DEF Call, WorksOn
  <2> HIDE DEF new
  <2> QED BY <1>3, <2>1, <2>2, <2>4, SameOpened DEF store_put, PortStep
<1>4. ASSUME NEW c \in StoreCallers, atomic_write_stream(c) PROVE PortStep
  <2>1. calls'[c].pc = "stream" /\ \A d \in StoreCallers : d # c => calls'[d] = calls[d]
    BY <1>0, <1>4 DEF atomic_write_stream, Turns, StoreInv, StoreTypes, Call, In
  <2> QED BY <1>4, <2>1 DEF atomic_write_stream, PortStep, openedBar, In
<1>5. ASSUME NEW c \in StoreCallers, StreamEnds(c) \/ Breaks(c) PROVE PortStep
  BY <1>5, ClosedOne DEF StreamEnds, Breaks
<1>6. ASSUME NEW c \in StoreCallers, replace(c) \/ put_object(c) PROVE PortStep
  <2>1. Whole(c) \in Stored /\ calls[c].key \in StoreKeys /\ calls[c].pc = "stream"
    BY <1>6, WholeStored DEF replace, put_object, In
  <2>2. PICK what \in {"stored", "failed"} : Answers(c, what)
    BY <1>6 DEF replace, put_object
  <2>3. openedBar' = openedBar
    BY <2>1, <2>2, AnsweredElsewhere
  <2>4. CASE medium' = medium
    BY <2>3, <2>4 DEF PortStep
  <2>5. CASE medium' = [medium EXCEPT ![calls[c].key] = Whole(c)]
    <3>1. Port!Put(calls[c].key, Whole(c))
      BY <2>3, <2>5 DEF Port!Put
    <3> QED BY <2>1, <3>1 DEF PortStep, Port!Next, Stored
  <2> QED BY <1>6, <2>4, <2>5 DEF replace, put_object
<1>7. ASSUME NEW c \in StoreCallers, NEW k \in StoreKeys, open(c, k) PROVE PortStep
  <2>1. calls[c].pc = "idle" /\ medium' = medium /\ medium[k] \in Stored \cup {NoObject}
    BY <1>0, <1>7 DEF open, Begins, In, Medium
  <2>2. CASE medium[k] = NoObject
    <3>1. Turns(c, [Free EXCEPT !.answer = "missing"])
      BY <1>7, <2>2 DEF open, Begins
    <3>2. [Free EXCEPT !.answer = "missing"] \in Call /\ WorksOn([Free EXCEPT !.answer = "missing"])
          /\ [Free EXCEPT !.answer = "missing"].pc = "idle"
      BY FreeIsCall DEF Call, WorksOn
    <3> QED BY <2>1, <3>1, <3>2, SameOpened DEF PortStep
  <2>3. CASE medium[k] # NoObject
    <3> DEFINE new == [Free EXCEPT !.pc = "read", !.key = k, !.handle = medium[k]]
    <3>1. Turns(c, new)
      BY <1>7, <2>3 DEF open, Begins
    <3>2. new \in Call /\ WorksOn(new) /\ new.pc = "read" /\ new.handle = medium[k]
      BY <2>1, <2>3, FreeIsCall DEF Call, WorksOn
    <3> HIDE DEF new
    <3>3. calls'[c] = new /\ \A d \in StoreCallers : d # c => calls'[d] = calls[d]
      BY <3>1, <3>2, Turned
    <3>4. openedBar' = [openedBar EXCEPT ![c] = medium[k]]
      BY <3>2, <3>3 DEF openedBar, In
    <3>5. Port!Open(c, k)
      BY <2>1, <2>3, <3>4 DEF Port!Open
    <3> QED BY <3>5 DEF PortStep, Port!Next
  <2> QED BY <2>2, <2>3
<1>8. ASSUME NEW c \in StoreCallers, NEW k \in StoreKeys, stat(c, k) PROVE PortStep
  <2>1. calls[c].pc = "idle" /\ medium' = medium /\ medium[k] \in Stored \cup {NoObject}
    BY <1>0, <1>8 DEF stat, Begins, In, Medium
  <2>2. PICK new : /\ Turns(c, new)
                   /\ \/ new = [Free EXCEPT !.answer = "missing"]
                      \/ /\ medium[k] # NoObject
                         /\ new = [Free EXCEPT !.pc = "digest", !.key = k, !.handle = medium[k]]
    BY <1>8 DEF stat, Begins
  <2>3. new \in Call /\ WorksOn(new) /\ new.pc # "read"
    BY <2>1, <2>2, FreeIsCall DEF Call, WorksOn
  <2> QED BY <2>1, <2>2, <2>3, SameOpened DEF PortStep
<1>9. ASSUME NEW c \in StoreCallers, read(c) PROVE PortStep
  <2>1. CASE Answers(c, "read")
    BY <1>9, <2>1, ClosedOne DEF read
  <2>2. CASE Turns(c, [calls[c] EXCEPT !.n = @ + 1])
    <3>1. /\ calls'[c].pc = calls[c].pc /\ calls'[c].handle = calls[c].handle
          /\ \A d \in StoreCallers : d # c => calls'[d] = calls[d]
      BY <1>0, <2>2 DEF Turns, StoreInv, StoreTypes, Call
    <3> QED BY <1>9, <3>1 DEF read, PortStep, openedBar, In
  <2> QED BY <1>9, <2>1, <2>2 DEF read
<1>10. ASSUME NEW c \in StoreCallers, digest_of(c) PROVE PortStep
  <2>1. medium' = medium /\ calls[c].pc = "digest"
    BY <1>10 DEF digest_of, In
  <2>2. CASE Answers(c, "missing")
    BY <2>1, <2>2, ClosedOne
  <2>3. ASSUME NEW d, Turns(c, [calls[c] EXCEPT !.pc = "idle", !.answer = "digest", !.digest = d,
                                                !.handle = NoObject])
        PROVE  PortStep
    <3>1. calls'[c].pc = "idle" /\ \A e \in StoreCallers : e # c => calls'[e] = calls[e]
      BY <1>0, <2>3 DEF Turns, StoreInv, StoreTypes, Call
    <3> QED BY <2>1, <3>1 DEF PortStep, openedBar, In
  <2> QED BY <1>10, <2>2, <2>3 DEF digest_of
<1>11. ASSUME NEW c \in StoreCallers, NEW k \in StoreKeys, delete(c, k) PROVE PortStep
  <2>1. PICK what \in {"deleted", "failed"} : Begins(c, [Free EXCEPT !.answer = what])
    BY <1>11 DEF delete
  <2>2. [Free EXCEPT !.answer = what] \in Call /\ WorksOn([Free EXCEPT !.answer = what])
        /\ [Free EXCEPT !.answer = what].pc = "idle"
    BY FreeIsCall DEF Call, WorksOn
  <2>3. Turns(c, [Free EXCEPT !.answer = what]) /\ calls[c].pc = "idle"
    BY <2>1 DEF Begins, In
  <2>4. openedBar' = openedBar
    BY <2>2, <2>3, SameOpened
  <2>5. medium' = medium \/ medium' = Lacking({k})
    BY <1>11 DEF delete
  <2> QED BY <2>4, <2>5, Removes DEF PortStep
<1>12. ASSUME NEW c \in StoreCallers, NEW ks \in SUBSET StoreKeys, delete_many(c, ks) PROVE PortStep
  <2> DEFINE new == [Free EXCEPT !.pc = "purge", !.todo = ks]
  <2>1. new \in Call /\ WorksOn(new) /\ new.pc = "purge"
    BY FreeIsCall DEF Call, WorksOn
  <2>2. Turns(c, new) /\ calls[c].pc = "idle" /\ medium' = medium
    BY <1>12 DEF delete_many, Begins, In
  <2> HIDE DEF new
  <2> QED BY <2>1, <2>2, SameOpened DEF PortStep
<1>13. ASSUME NEW c \in StoreCallers, unlink(c) \/ delete_objects(c) PROVE PortStep
  <2>1. calls[c].pc = "purge" /\ calls[c].todo \in SUBSET StoreKeys /\ calls[c] \in Call
    BY <1>0, <1>13 DEF unlink, delete_objects, In, Call
  <2>2. \A what \in {"deleted", "failed"} :
            /\ [Free EXCEPT !.answer = what] \in Call /\ WorksOn([Free EXCEPT !.answer = what])
            /\ [Free EXCEPT !.answer = what].pc = "idle"
    BY FreeIsCall DEF Call, WorksOn
  <2>3. \A ks : /\ [calls[c] EXCEPT !.todo = @ \ ks] \in Call
                /\ WorksOn([calls[c] EXCEPT !.todo = @ \ ks])
                /\ [calls[c] EXCEPT !.todo = @ \ ks].pc = "purge"
    BY <2>1 DEF Call, WorksOn
  <2>4. \E new \in Call : Turns(c, new) /\ WorksOn(new) /\ new.pc # "read"
    BY <1>13, <2>2, <2>3 DEF unlink, delete_objects, Purged
  <2>5. openedBar' = openedBar
    BY <2>1, <2>4, SameOpened
  <2>6. medium' = medium \/ \E ks \in SUBSET StoreKeys : medium' = Lacking(ks)
    BY <1>13, <2>1 DEF unlink, delete_objects
  <2> QED BY <2>5, <2>6, Removes DEF PortStep
<1>14. CASE UNCHANGED storeVars
  BY <1>14 DEF storeVars, PortStep, openedBar, In
<1> QED
  BY <1>1, <1>2, <1>3, <1>4, <1>5, <1>6, <1>7, <1>8, <1>9, <1>10, <1>11, <1>12, <1>13, <1>14
  DEF StoreNext

\* The directory and the bucket implement the abstract store: whatever breaks off,
\* fails or dies, a key holds one whole put or nothing, and a reader keeps the
\* object it opened (put, open, delete and delete_many of services/objectstore.py).
THEOREM StoresImplement == StoreSpec => ImplementsObjects
<1>1. StoreInit => Port!Init
  BY FreeIsCall DEF StoreInit, Port!Init, openedBar, In
<1>2. StoreInv /\ [StoreNext]_storeVars => [Port!Next]_<<medium, openedBar>>
  BY StoreStep DEF PortStep
<1> QED BY <1>1, <1>2, StoreTypesHold, PTL DEF StoreSpec, ImplementsObjects, Port!Spec

-----------------------------------------------------------------------------
(* Digests, while every put has a key of its own.                          *)

\* What Settled says of a call, of a remembered digest and of a stored object.
LEMMA SettledKept ==
    ASSUME StoreInv, Settled, used' = used,
           \A c \in StoreCallers :
               /\ In(c, "stream")' => In(c, "stream") /\ calls'[c].key = calls[c].key
               /\ In(c, "digest")' => In(c, "digest") /\ calls'[c].key = calls[c].key
               /\ calls'[c].answer = "digest" =>
                      /\ calls[c].answer = "digest" /\ calls'[c].key = calls[c].key
                      /\ calls'[c].digest = calls[c].digest,
           \A k \in StoreKeys : medium'[k] \in {medium[k], NoObject},
           memo' \subseteq memo
    PROVE  Settled'
<1>1. \A k : Done(k) => Done(k)'
  BY DEF Done
<1>2. \A m \in memo : m.stamp[1] \in StoreKeys
  BY DEF StoreInv, StoreTypes, Memo
<1>3. \A c \in StoreCallers : In(c, "stream") => calls[c].key \in StoreKeys
  BY DEF StoreInv, WorksOn, In
<1>4. \A c, d \in StoreCallers :
           In(c, "stream")' /\ In(d, "stream")' /\ calls'[c].key = calls'[d].key => c = d
  BY DEF Settled
<1>5. \A c \in StoreCallers : In(c, "stream")' => calls'[c].key \in used' /\ medium'[calls'[c].key] = NoObject
  BY <1>3 DEF Settled
<1>6. \A k \in StoreKeys : medium'[k] # NoObject => k \in used'
  BY DEF Settled
<1>7. \A m \in memo' :
           /\ Done(m.stamp[1])'
           /\ medium'[m.stamp[1]] # NoObject => m.digest = medium'[m.stamp[1]].put
  BY <1>1, <1>2 DEF Settled
<1>8. \A c \in StoreCallers : In(c, "digest")' => Done(calls[c].key)'
  BY <1>1 DEF Settled
<1>9. \A c \in StoreCallers :
           calls'[c].answer = "digest" =>
               /\ calls'[c].key \in StoreKeys /\ Done(calls[c].key)'
               /\ medium'[calls'[c].key] # NoObject => calls'[c].digest = medium'[calls'[c].key].put
  BY <1>1 DEF Settled
<1> QED BY <1>4, <1>5, <1>6, <1>7, <1>8, <1>9 DEF Settled

LEMMA SettledStep == StoreInv /\ DigestInv /\ [StoreNext]_storeVars => DigestInv'
<1> SUFFICES ASSUME StoreInv, FreshKeys, Settled, [StoreNext]_storeVars PROVE Settled'
  BY DEF DigestInv
<1>0. /\ medium \in Medium /\ \A c \in StoreCallers : calls[c] \in Call /\ WorksOn(calls[c])
      /\ calls \in [StoreCallers -> Call]
  BY DEF StoreInv, StoreTypes
<1>a. ASSUME NEW c \in StoreCallers, NEW new \in Call, Turns(c, new), WorksOn(new), used' = used,
             \A k \in StoreKeys : medium'[k] \in {medium[k], NoObject}, memo' \subseteq memo,
             new.pc = "stream" => calls[c].pc = "stream" /\ new.key = calls[c].key,
             new.pc # "digest", new.answer # "digest" \/ (new.answer = calls[c].answer /\
                 new.key = calls[c].key /\ new.digest = calls[c].digest)
      PROVE  Settled'
  <2>1. calls'[c] = new /\ \A d \in StoreCallers : d # c => calls'[d] = calls[d]
    BY <1>a, Turned
  <2> QED BY <1>a, <2>1, SettledKept DEF In
<1>1. CASE ClockTicks \/ UNCHANGED storeVars
  BY <1>1, SettledKept DEF ClockTicks, storeVars, In
<1>2. CASE Dies
  <2>1. \A c \in StoreCallers : calls'[c] = Free
    BY <1>2 DEF Dies
  <2> QED BY <1>2, <2>1, FreeIsCall, SettledKept DEF Dies, In
<1>3. ASSUME NEW c \in StoreCallers, NEW k \in StoreKeys, store_put(c, k) PROVE Settled'
  <2> DEFINE new == [Free EXCEPT !.pc = "stream", !.key = k, !.put = made + 1]
  <2>1. Begins(c, new) /\ calls[c].pc = "idle" /\ k \notin used /\ used' = used \cup {k}
        /\ medium' = medium /\ memo' = memo
    BY <1>3 DEF store_put, Begins, In
  <2>2. Turns(c, new) /\ made + 1 \in 1 .. MaxCalls
    BY <2>1, Began
  <2>3. made + 1 \in 0 .. MaxCalls
    BY <2>2, ObjectStoreAssumption
  <2>4. new \in Call /\ WorksOn(new) /\ new.pc = "stream" /\ new.key = k /\ new.answer = ""
    BY <2>2, <2>3, FreeIsCall DEF Call, WorksOn
  <2> HIDE DEF new
  <2>5. calls'[c] = new /\ \A d \in StoreCallers : d # c => calls'[d] = calls[d]
    BY <2>2, <2>4, Turned
  <2>6. medium[k] = NoObject /\ \A d \in StoreCallers : In(d, "stream") => calls[d].key # k
    BY <2>1 DEF Settled
  <2>7. \A j : Done(j) => Done(j)'
    BY <2>1, <2>4, <2>5 DEF Done, In
  <2>8. \A d, e \in StoreCallers :
             In(d, "stream")' /\ In(e, "stream")' /\ calls'[d].key = calls'[e].key => d = e
    BY <2>4, <2>5, <2>6 DEF Settled, In
  <2>9. \A d \in StoreCallers : In(d, "stream")' => calls'[d].key \in used' /\ medium'[calls'[d].key] = NoObject
    BY <2>1, <2>4, <2>5, <2>6 DEF Settled, In
  <2>10. \A j \in StoreKeys : medium'[j] # NoObject => j \in used'
    BY <2>1 DEF Settled
  <2>11. \A m \in memo' :
             /\ Done(m.stamp[1])'
             /\ medium'[m.stamp[1]] # NoObject => m.digest = medium'[m.stamp[1]].put
    BY <2>1, <2>7 DEF Settled
  <2>12. \A d \in StoreCallers : In(d, "digest")' => Done(calls[d].key)'
    <3> SUFFICES ASSUME NEW d \in StoreCallers, In(d, "digest")' PROVE Done(calls[d].key)'
      OBVIOUS
    <3>1. calls'[d] = calls[d] /\ In(d, "digest")
      BY <2>4, <2>5 DEF In
    <3>2. Done(calls[d].key)
      BY <3>1 DEF Settled
    <3> QED BY <2>7, <3>1, <3>2
  <2>13. \A d \in StoreCallers :
             calls'[d].answer = "digest" =>
                 /\ calls'[d].key \in StoreKeys /\ Done(calls[d].key)'
                 /\ medium'[calls'[d].key] # NoObject => calls'[d].digest = medium'[calls'[d].key].put
    <3> SUFFICES ASSUME NEW d \in StoreCallers, calls'[d].answer = "digest"
                 PROVE  /\ calls'[d].key \in StoreKeys /\ Done(calls[d].key)'
                        /\ medium'[calls'[d].key] # NoObject => calls'[d].digest = medium'[calls'[d].key].put
      OBVIOUS
    <3>1. calls'[d] = calls[d]
      BY <2>4, <2>5
    <3>2. Done(calls[d].key) /\ calls[d].key \in StoreKeys
          /\ (medium[calls[d].key] # NoObject => calls[d].digest = medium[calls[d].key].put)
      BY <3>1 DEF Settled
    <3> QED BY <2>1, <2>7, <3>1, <3>2
  <2> QED BY <2>8, <2>9, <2>10, <2>11, <2>12, <2>13 DEF Settled
<1>4. ASSUME NEW c \in StoreCallers, atomic_write_stream(c) PROVE Settled'
  <2>1. /\ \A d \in StoreCallers : /\ calls'[d].pc = calls[d].pc /\ calls'[d].key = calls[d].key
                                   /\ calls'[d].answer = calls[d].answer /\ calls'[d].digest = calls[d].digest
    BY <1>0, <1>4 DEF atomic_write_stream, Turns, Call
  <2> QED BY <1>4, <2>1, SettledKept DEF atomic_write_stream, In
<1>5. ASSUME NEW c \in StoreCallers, NEW what \in {"stored", "failed", "missing", "read"}, Answers(c, what),
             medium' = medium, memo' = memo, used' = used
      PROVE  Settled'
  <2>1. PICK new \in Call : Turns(c, new) /\ WorksOn(new) /\ new.pc = "idle" /\ new.answer = what
    BY <1>5, Answered
  <2> QED BY <1>5, <1>a, <2>1
<1>6. ASSUME NEW c \in StoreCallers, replace(c) \/ put_object(c) PROVE Settled'
  <2>1. Whole(c) \in Stored /\ calls[c].key \in StoreKeys /\ calls[c].pc = "stream"
    BY <1>6, WholeStored DEF replace, put_object, In
  <2>2. PICK what \in {"stored", "failed"} : Answers(c, what)
    BY <1>6 DEF replace, put_object
  <2>3. PICK new \in Call : Turns(c, new) /\ WorksOn(new) /\ new.pc = "idle" /\ new.answer = what
    BY <2>2, Answered
  <2>4. calls'[c] = new /\ \A d \in StoreCallers : d # c => calls'[d] = calls[d]
    BY <2>3, Turned
  <2>5. used' = used /\ memo' = memo
    BY <1>6 DEF replace, put_object
  <2>6. CASE medium' = medium
    BY <2>2, <2>5, <2>6, <1>5
  <2>7. CASE medium' = [medium EXCEPT ![calls[c].key] = Whole(c)]
    <3> DEFINE k == calls[c].key
    <3>1. k \in used /\ ~Done(k)
      BY <2>1 DEF Settled, Done, In
    <3>2. \A j : Done(j) => j # k /\ Done(j)'
      BY <2>3, <2>4, <2>5, <3>1 DEF Done, In
    <3>3. \A j \in StoreKeys : j # k => medium'[j] = medium[j]
      BY <1>0, <2>7 DEF Medium
    <3> HIDE DEF k
    <3>4. \A d \in StoreCallers : d # c => calls'[d] = calls[d] /\ (In(d, "stream") => calls[d].key # k)
      BY <2>1, <2>4 DEF Settled, In, k
    <3>5. \A d, e \in StoreCallers :
               In(d, "stream")' /\ In(e, "stream")' /\ calls'[d].key = calls'[e].key => d = e
      BY <2>3, <2>4 DEF Settled, In
    <3>6. \A d \in StoreCallers : In(d, "stream")' => calls'[d].key \in used' /\ medium'[calls'[d].key] = NoObject
      <4> SUFFICES ASSUME NEW d \in StoreCallers, In(d, "stream")'
                   PROVE  calls'[d].key \in used' /\ medium'[calls'[d].key] = NoObject
        OBVIOUS
      <4>1. d # c /\ calls'[d] = calls[d] /\ In(d, "stream")
        BY <2>3, <2>4 DEF In
      <4>2. calls[d].key \in StoreKeys /\ calls[d].key # k
        BY <1>0, <3>4, <4>1 DEF WorksOn, In
      <4>3. calls[d].key \in used /\ medium[calls[d].key] = NoObject
        BY <4>1 DEF Settled
      <4> QED BY <2>5, <3>3, <4>1, <4>2, <4>3
    <3>7. \A j \in StoreKeys : medium'[j] # NoObject => j \in used'
      BY <2>5, <3>1, <3>3 DEF Settled
    <3>8. \A m \in memo' :
               /\ Done(m.stamp[1])'
               /\ medium'[m.stamp[1]] # NoObject => m.digest = medium'[m.stamp[1]].put
      <4> SUFFICES ASSUME NEW m \in memo
                   PROVE  /\ Done(m.stamp[1])'
                          /\ medium'[m.stamp[1]] # NoObject => m.digest = medium'[m.stamp[1]].put
        BY <2>5
      <4>1. m.stamp[1] \in StoreKeys
        BY DEF StoreInv, StoreTypes, Memo
      <4>2. Done(m.stamp[1]) /\ (medium[m.stamp[1]] # NoObject => m.digest = medium[m.stamp[1]].put)
        BY DEF Settled
      <4> QED BY <3>2, <3>3, <4>1, <4>2
    <3>9. \A d \in StoreCallers : In(d, "digest")' => Done(calls[d].key)'
      <4> SUFFICES ASSUME NEW d \in StoreCallers, In(d, "digest")' PROVE Done(calls[d].key)'
        OBVIOUS
      <4>1. calls'[d] = calls[d] /\ In(d, "digest")
        BY <2>3, <2>4 DEF In
      <4>2. Done(calls[d].key)
        BY <4>1 DEF Settled
      <4> QED BY <3>2, <4>1, <4>2
    <3>10. \A d \in StoreCallers :
               calls'[d].answer = "digest" =>
                   /\ calls'[d].key \in StoreKeys /\ Done(calls[d].key)'
                   /\ medium'[calls'[d].key] # NoObject => calls'[d].digest = medium'[calls'[d].key].put
      <4> SUFFICES ASSUME NEW d \in StoreCallers, calls'[d].answer = "digest"
                   PROVE  /\ calls'[d].key \in StoreKeys /\ Done(calls[d].key)'
                          /\ medium'[calls'[d].key] # NoObject => calls'[d].digest = medium'[calls'[d].key].put
        OBVIOUS
      <4>1. calls'[d] = calls[d]
        BY <2>3, <2>4
      <4>2. Done(calls[d].key) /\ calls[d].key \in StoreKeys
            /\ (medium[calls[d].key] # NoObject => calls[d].digest = medium[calls[d].key].put)
        BY <4>1 DEF Settled
      <4> QED BY <3>2, <3>3, <4>1, <4>2
    <3> QED BY <3>5, <3>6, <3>7, <3>8, <3>9, <3>10 DEF Settled
  <2> QED BY <1>6, <2>6, <2>7 DEF replace, put_object
<1>7. ASSUME NEW c \in StoreCallers, NEW k \in StoreKeys, open(c, k) PROVE Settled'
  <2>1. medium' = medium /\ medium[k] \in Stored \cup {NoObject} /\ used' = used /\ memo' = memo
    BY <1>0, <1>7 DEF open, Medium
  <2>2. PICK new : /\ Turns(c, new)
                   /\ \/ new = [Free EXCEPT !.answer = "missing"]
                      \/ /\ medium[k] # NoObject
                         /\ new = [Free EXCEPT !.pc = "read", !.key = k, !.handle = medium[k]]
    BY <1>7 DEF open, Begins
  <2>3. new \in Call /\ WorksOn(new) /\ new.pc \in {"idle", "read"} /\ new.answer # "digest"
    BY <2>1, <2>2, FreeIsCall DEF Call, WorksOn
  <2> QED BY <1>a, <2>1, <2>2, <2>3
<1>8. ASSUME NEW c \in StoreCallers, NEW k \in StoreKeys, stat(c, k) PROVE Settled'
  <2>1. medium' = medium /\ medium[k] \in Stored \cup {NoObject} /\ used' = used /\ memo' = memo
    BY <1>0, <1>8 DEF stat, Medium
  <2>2. CASE medium[k] = NoObject
    <3> DEFINE new == [Free EXCEPT !.answer = "missing"]
    <3>1. Turns(c, new)
      BY <1>8, <2>2 DEF stat, Begins
    <3>2. new \in Call /\ WorksOn(new) /\ new.pc = "idle" /\ new.answer = "missing"
      BY FreeIsCall DEF Call, WorksOn
    <3> HIDE DEF new
    <3> QED BY <1>a, <2>1, <3>1, <3>2
  <2>3. CASE medium[k] # NoObject
    <3> DEFINE new == [Free EXCEPT !.pc = "digest", !.key = k, !.handle = medium[k]]
    <3>1. Turns(c, new)
      BY <1>8, <2>3 DEF stat, Begins
    <3>2. new \in Call /\ WorksOn(new) /\ new.pc = "digest" /\ new.key = k /\ new.answer = ""
      BY <2>1, <2>3, FreeIsCall DEF Call, WorksOn
    <3> HIDE DEF new
    <3>3. calls'[c] = new /\ \A d \in StoreCallers : d # c => calls'[d] = calls[d]
      BY <3>1, <3>2, Turned
    <3>4. Done(k)
      BY <2>3 DEF Settled, Done
    <3>5. \A j : Done(j) => Done(j)'
      BY <2>1, <3>2, <3>3 DEF Done, In
    <3>6. \A d \in StoreCallers : In(d, "digest")' => Done(calls[d].key)'
      <4> SUFFICES ASSUME NEW d \in StoreCallers, In(d, "digest")' PROVE Done(calls[d].key)'
        OBVIOUS
      <4>1. CASE d = c
        BY <3>2, <3>3, <3>4, <3>5, <4>1 DEF Done
      <4>2. CASE d # c
        <5>1. calls'[d] = calls[d] /\ In(d, "digest")
          BY <3>3, <4>2 DEF In
        <5>2. Done(calls[d].key)
          BY <5>1 DEF Settled
        <5> QED BY <3>5, <5>1, <5>2
      <4> QED BY <4>1, <4>2
    <3>7. \A d \in StoreCallers :
               calls'[d].answer = "digest" =>
                   /\ calls'[d].key \in StoreKeys /\ Done(calls[d].key)'
                   /\ medium'[calls'[d].key] # NoObject => calls'[d].digest = medium'[calls'[d].key].put
      <4> SUFFICES ASSUME NEW d \in StoreCallers, calls'[d].answer = "digest"
                   PROVE  /\ calls'[d].key \in StoreKeys /\ Done(calls[d].key)'
                          /\ medium'[calls'[d].key] # NoObject => calls'[d].digest = medium'[calls'[d].key].put
        OBVIOUS
      <4>1. calls'[d] = calls[d]
        BY <3>2, <3>3
      <4>2. Done(calls[d].key) /\ calls[d].key \in StoreKeys
            /\ (medium[calls[d].key] # NoObject => calls[d].digest = medium[calls[d].key].put)
        BY <4>1 DEF Settled
      <4> QED BY <2>1, <3>5, <4>1, <4>2
    <3>8. \A d, e \in StoreCallers :
               In(d, "stream")' /\ In(e, "stream")' /\ calls'[d].key = calls'[e].key => d = e
      BY <3>2, <3>3 DEF Settled, In
    <3>9. \A d \in StoreCallers : In(d, "stream")' => calls'[d].key \in used' /\ medium'[calls'[d].key] = NoObject
      BY <2>1, <3>2, <3>3 DEF Settled, In
    <3>10. /\ \A j \in StoreKeys : medium'[j] # NoObject => j \in used'
           /\ \A m \in memo' :
                 /\ Done(m.stamp[1])'
                 /\ medium'[m.stamp[1]] # NoObject => m.digest = medium'[m.stamp[1]].put
      BY <2>1, <3>5 DEF Settled
    <3> QED BY <3>6, <3>7, <3>8, <3>9, <3>10 DEF Settled
  <2> QED BY <2>2, <2>3
<1>9. ASSUME NEW c \in StoreCallers, read(c) PROVE Settled'
  <2>1. CASE Answers(c, "read")
    BY <1>5, <1>9, <2>1 DEF read
  <2>2. CASE Turns(c, [calls[c] EXCEPT !.n = @ + 1])
    <3>1. \A d \in StoreCallers : /\ calls'[d].pc = calls[d].pc /\ calls'[d].key = calls[d].key
                                  /\ calls'[d].answer = calls[d].answer /\ calls'[d].digest = calls[d].digest
      BY <1>0, <2>2 DEF Turns, Call
    <3> QED BY <1>9, <3>1, SettledKept DEF read, In
  <2> QED BY <1>9, <2>1, <2>2 DEF read
<1>10. ASSUME NEW c \in StoreCallers, digest_of(c) PROVE Settled'
  <2> DEFINE k == calls[c].key
             stamp == _stamp(k, calls[c].handle)
             new(d) == [calls[c] EXCEPT !.pc = "idle", !.answer = "digest", !.digest = d, !.handle = NoObject]
  <2>1. k \in StoreKeys /\ calls[c].handle \in Stored /\ calls[c] \in Call /\ Done(k)
        /\ medium' = medium /\ used' = used
    BY <1>0, <1>10 DEF digest_of, WorksOn, In, Settled
  <2>2. stamp[1] = k
    BY DEF _stamp
  <2>3. \A d : /\ new(d).pc = "idle" /\ new(d).key = k /\ new(d).answer = "digest" /\ new(d).digest = d
    BY <2>1 DEF Call
  <2>4. ASSUME NEW d, Turns(c, new(d)), medium[k] # NoObject => d = medium[k].put,
               memo' \subseteq memo \cup {[stamp |-> stamp, digest |-> d]}
        PROVE  Settled'
    <3>1. calls'[c] = new(d) /\ \A e \in StoreCallers : e # c => calls'[e] = calls[e]
      BY <1>0, <2>4 DEF Turns
    <3> HIDE DEF stamp, new
    <3>2. \A j : Done(j) => Done(j)'
      BY <2>1, <2>3, <3>1 DEF Done, In
    <3>3. \A e, f \in StoreCallers :
               In(e, "stream")' /\ In(f, "stream")' /\ calls'[e].key = calls'[f].key => e = f
      BY <2>3, <3>1 DEF Settled, In
    <3>4. \A e \in StoreCallers : In(e, "stream")' => calls'[e].key \in used' /\ medium'[calls'[e].key] = NoObject
      BY <2>1, <2>3, <3>1 DEF Settled, In
    <3>5. \A j \in StoreKeys : medium'[j] # NoObject => j \in used'
      BY <2>1 DEF Settled
    <3>6. \A m \in memo' :
               /\ Done(m.stamp[1])'
               /\ medium'[m.stamp[1]] # NoObject => m.digest = medium'[m.stamp[1]].put
      <4> SUFFICES ASSUME NEW m \in memo'
                   PROVE  /\ Done(m.stamp[1])'
                          /\ medium'[m.stamp[1]] # NoObject => m.digest = medium'[m.stamp[1]].put
        OBVIOUS
      <4>1. CASE m \in memo
        BY <2>1, <3>2, <4>1 DEF Settled
      <4>2. CASE m = [stamp |-> stamp, digest |-> d]
        BY <2>1, <2>2, <2>4, <3>2, <4>2
      <4> QED BY <2>4, <4>1, <4>2
    <3>7. \A e \in StoreCallers : In(e, "digest")' => Done(calls[e].key)'
      <4> SUFFICES ASSUME NEW e \in StoreCallers, In(e, "digest")' PROVE Done(calls[e].key)'
        OBVIOUS
      <4>1. calls'[e] = calls[e] /\ In(e, "digest")
        BY <2>3, <3>1 DEF In
      <4>2. Done(calls[e].key)
        BY <4>1 DEF Settled
      <4> QED BY <3>2, <4>1, <4>2
    <3>8. \A e \in StoreCallers :
               calls'[e].answer = "digest" =>
                   /\ calls'[e].key \in StoreKeys /\ Done(calls[e].key)'
                   /\ medium'[calls'[e].key] # NoObject => calls'[e].digest = medium'[calls'[e].key].put
      <4> SUFFICES ASSUME NEW e \in StoreCallers, calls'[e].answer = "digest"
                   PROVE  /\ calls'[e].key \in StoreKeys /\ Done(calls[e].key)'
                          /\ medium'[calls'[e].key] # NoObject => calls'[e].digest = medium'[calls'[e].key].put
        OBVIOUS
      <4>1. CASE e = c
        <5>1. calls'[e].key = k /\ calls'[e].digest = d
          BY <2>3, <3>1, <4>1
        <5>2. Done(calls[e].key)'
          BY <2>1, <3>2, <5>1 DEF Done
        <5>3. medium'[calls'[e].key] # NoObject => calls'[e].digest = medium'[calls'[e].key].put
          BY <2>1, <2>4, <5>1
        <5> QED BY <2>1, <5>1, <5>2, <5>3
      <4>2. CASE e # c
        <5>1. calls'[e] = calls[e]
          BY <3>1, <4>2
        <5>2. Done(calls[e].key) /\ calls[e].key \in StoreKeys
              /\ (medium[calls[e].key] # NoObject => calls[e].digest = medium[calls[e].key].put)
          BY <5>1 DEF Settled
        <5> QED BY <2>1, <3>2, <5>1, <5>2
      <4> QED BY <4>1, <4>2
    <3> QED BY <3>3, <3>4, <3>5, <3>6, <3>7, <3>8 DEF Settled
  <2>5. CASE Answers(c, "missing") /\ UNCHANGED memo
    BY <1>5, <2>1, <2>5
  <2>6. CASE UNCHANGED memo /\ \E m \in memo : m.stamp = stamp /\ Turns(c, new(m.digest))
    <3>1. PICK m \in memo : m.stamp = stamp /\ Turns(c, new(m.digest))
      BY <2>6
    <3>2. medium[k] # NoObject => m.digest = medium[k].put
      BY <2>2, <3>1 DEF Settled
    <3> HIDE DEF new, stamp, k
    <3> QED BY <2>4, <2>6, <3>1, <3>2
  <2>7. CASE /\ Turns(c, new(medium[k].put))
             /\ memo' = memo \cup {[stamp |-> stamp, digest |-> medium[k].put]}
    <3> HIDE DEF new, stamp, k
    <3> QED BY <2>4, <2>7
  <2> QED BY <1>10, <2>5, <2>6, <2>7 DEF digest_of, sha256_of
<1>11. ASSUME NEW c \in StoreCallers, NEW k \in StoreKeys, delete(c, k) PROVE Settled'
  <2>1. PICK what \in {"deleted", "failed"} : Begins(c, [Free EXCEPT !.answer = what])
    BY <1>11 DEF delete
  <2> DEFINE new == [Free EXCEPT !.answer = what]
  <2>2. new \in Call /\ WorksOn(new) /\ new.pc = "idle" /\ new.answer = what
    BY FreeIsCall DEF Call, WorksOn
  <2>3. Turns(c, new) /\ used' = used /\ memo' = memo
    BY <1>11, <2>1 DEF Begins, delete
  <2>4. medium' = medium \/ medium' = Lacking({k})
    BY <1>11 DEF delete
  <2>5. \A j \in StoreKeys : medium'[j] \in {medium[j], NoObject}
    BY <2>4, LackingTyped
  <2> HIDE DEF new
  <2> QED BY <1>a, <2>2, <2>3, <2>5
<1>12. ASSUME NEW c \in StoreCallers, NEW ks \in SUBSET StoreKeys, delete_many(c, ks) PROVE Settled'
  <2> DEFINE new == [Free EXCEPT !.pc = "purge", !.todo = ks]
  <2>1. new \in Call /\ WorksOn(new) /\ new.pc = "purge" /\ new.answer = ""
    BY FreeIsCall DEF Call, WorksOn
  <2>2. Turns(c, new) /\ medium' = medium /\ used' = used /\ memo' = memo
    BY <1>12 DEF delete_many, Begins
  <2> HIDE DEF new
  <2> QED BY <1>a, <2>1, <2>2
<1>13. ASSUME NEW c \in StoreCallers, unlink(c) \/ delete_objects(c) PROVE Settled'
  <2>1. calls[c].pc = "purge" /\ calls[c].todo \in SUBSET StoreKeys /\ calls[c] \in Call
        /\ used' = used /\ memo' = memo
    BY <1>0, <1>13 DEF unlink, delete_objects, In, Call
  <2>2. \A what \in {"deleted", "failed"} :
            /\ [Free EXCEPT !.answer = what] \in Call /\ WorksOn([Free EXCEPT !.answer = what])
            /\ [Free EXCEPT !.answer = what].pc = "idle" /\ [Free EXCEPT !.answer = what].answer = what
    BY FreeIsCall DEF Call, WorksOn
  <2>3. \A ks : /\ [calls[c] EXCEPT !.todo = @ \ ks] \in Call
                /\ WorksOn([calls[c] EXCEPT !.todo = @ \ ks])
                /\ [calls[c] EXCEPT !.todo = @ \ ks].pc = "purge"
                /\ [calls[c] EXCEPT !.todo = @ \ ks].answer = calls[c].answer
                /\ [calls[c] EXCEPT !.todo = @ \ ks].key = calls[c].key
                /\ [calls[c] EXCEPT !.todo = @ \ ks].digest = calls[c].digest
    BY <2>1 DEF Call, WorksOn
  <2>4. \E new \in Call : /\ Turns(c, new) /\ WorksOn(new) /\ new.pc \in {"idle", "purge"}
                          /\ \/ new.answer # "digest"
                             \/ /\ new.answer = calls[c].answer /\ new.key = calls[c].key
                                /\ new.digest = calls[c].digest
    <3>1. CASE \E what \in {"deleted", "failed"} : Turns(c, [Free EXCEPT !.answer = what])
      <4>1. PICK what \in {"deleted", "failed"} : Turns(c, [Free EXCEPT !.answer = what])
        BY <3>1
      <4> QED BY <2>2, <4>1
    <3>2. CASE \E ks : Turns(c, [calls[c] EXCEPT !.todo = @ \ ks])
      <4>1. PICK ks : Turns(c, [calls[c] EXCEPT !.todo = @ \ ks])
        BY <3>2
      <4> QED BY <2>3, <4>1
    <3> QED BY <1>13, <3>1, <3>2 DEF unlink, delete_objects, Purged
  <2>5. medium' = medium \/ \E ks \in SUBSET StoreKeys : medium' = Lacking(ks)
    BY <1>13, <2>1 DEF unlink, delete_objects
  <2>6. \A j \in StoreKeys : medium'[j] \in {medium[j], NoObject}
    BY <2>5, LackingTyped
  <2> QED BY <1>a, <2>1, <2>4, <2>6
<1>14. ASSUME NEW c \in StoreCallers, StreamEnds(c) \/ Breaks(c) PROVE Settled'
  BY <1>5, <1>14 DEF StreamEnds, Breaks
<1> QED
  BY <1>1, <1>2, <1>3, <1>4, <1>6, <1>7, <1>8, <1>9, <1>10, <1>11, <1>12, <1>13, <1>14
  DEF StoreNext

\* A digest that was given is that of the object under the key, through
\* concurrent puts, deletes, failures and a process that dies (digest_of of
\* services/digest.py, memoised by key, time and size), as long as every put
\* takes a key of its own, as new_key() gives them.
THEOREM DigestsHold == StoreSpec => []DigestOfObject
<1>1. StoreInit => DigestInv
  BY FreeIsCall DEF StoreInit, DigestInv, Settled, In
<1>2. StoreInv /\ DigestInv => DigestOfObject
  BY DEF DigestInv, Settled, DigestOfObject
<1> QED BY <1>1, <1>2, SettledStep, StoreTypesHold, PTL DEF StoreSpec

-----------------------------------------------------------------------------
(* The tools catalog.                                                      *)

\* One process boots at a time.
OneSeeder == \A s, t \in Seeders : s = t

Fresher(n) == {NoKey} \cup {Fresh(m) : m \in 1 .. n} \cup {Literal[p] : p \in Defaults}

CatalogRow(n) == [id : Fresher(n), key : Fresher(n)]

Writer(n) == [pc : {"idle", "put", "save", "commit", "supersede", "delete", "discard"},
              op : {"none", "upload", "import", "delete"}, path : Paths,
              read : CatalogRow(n), key : Fresher(n)]

CatalogTypes ==
    /\ rows \in [Paths -> CatalogRow(next)] /\ objects \subseteq Fresher(next)
    /\ next \in 0 .. MaxKeys /\ boots \in 0 .. MaxBoots /\ mark \in BOOLEAN
    /\ writer \in [Writers -> Writer(next)]
    /\ seeder \in [Seeders -> {"off", "install", "rows", "mark", "up"}]
    /\ deleted \subseteq Defaults

\* A row has an id exactly when it has an object key.
RowWhole(r) == r.id = NoKey <=> r.key = NoKey
RowsWhole == (\A p \in Paths : RowWhole(rows[p])) /\ (\A w \in Writers : RowWhole(writer[w].read))

\* The defaults are installed before anything else is: a process serves when the
\* mark is there, and installs only when it is not.
BootFirst ==
    /\ ~mark => /\ \A w \in Writers : writer[w] = Resting
                /\ deleted = {}
                /\ \A p \in Paths : rows[p].key # NoKey => p \in Defaults /\ rows[p].key = Literal[p]
                /\ \A s \in Seeders : seeder[s] # "up"
    /\ \A s \in Seeders : seeder[s] \in {"install", "rows"} => ~mark
    /\ \A s \in Seeders : seeder[s] = "rows" => \A p \in Defaults : Literal[p] \in objects

\* Writers that bring an object nobody else knows of.
Bringing == {"put", "save", "commit"}

KeyUnknown ==
    \A w \in Writers : writer[w].pc \in Bringing =>
        /\ \E n \in 1 .. next : writer[w].key = Fresh(n)
        /\ \A p \in Paths : rows[p].key # writer[w].key
        /\ \A v \in Writers : writer[v].read.key # writer[w].key
        /\ \A v \in Writers : writer[v].pc \in Bringing /\ writer[v].key = writer[w].key => v = w

\* What it brings is there before its row is written.
Brought == \A w \in Writers : writer[w].pc \in {"save", "commit"} => writer[w].key \in objects

\* An object belongs to one path, and so does one that a writer has read of.
OnePath ==
    /\ \A p, q \in Paths : rows[p].key # NoKey /\ rows[p].key = rows[q].key => p = q
    /\ \A w \in Writers, p \in Paths :
          writer[w].read.key # NoKey /\ rows[p].key = writer[w].read.key => p = writer[w].path

\* What a writer is about to remove, no row names.
Removing(r) == (r.pc = "supersede" /\ r.op = "import") \/ r.pc = "discard"
Removable ==
    \A w \in Writers : Removing(writer[w]) =>
        \A p \in Paths : rows[p].key = writer[w].read.key => rows[p].key = NoKey

HasObject == \A p \in Paths : rows[p].key # NoKey => rows[p].key \in objects

CatalogInv ==
    CatalogTypes /\ RowsWhole /\ BootFirst /\ KeyUnknown /\ Brought /\ OnePath /\ Removable
    /\ HasObject /\ DeletedStaysDeleted

LEMMA KeysApart ==
    /\ \A m, n \in Nat : Fresh(m) = Fresh(n) => m = n
    /\ \A n \in Nat : Fresh(n) # NoKey /\ \A p \in Defaults : Fresh(n) # Literal[p]
    /\ \A p \in Defaults : Literal[p] # NoKey
    /\ \A p, q \in Defaults : Literal[p] = Literal[q] => p = q
BY DEF Fresh, NoKey, Literal

\* What may be named after a key is handed out, and what may not before.
LEMMA NextKey ==
    ASSUME NEW n \in Nat
    PROVE  /\ Fresher(n) \subseteq Fresher(n + 1) /\ Fresh(n + 1) \in Fresher(n + 1)
           /\ Fresh(n + 1) \notin Fresher(n) /\ NoKey \in Fresher(n)
           /\ \A r \in CatalogRow(n) : r \in CatalogRow(n + 1)
           /\ \A r \in Writer(n) : r \in Writer(n + 1)
<1>1. Fresher(n) \subseteq Fresher(n + 1) /\ Fresh(n + 1) \in Fresher(n + 1) /\ NoKey \in Fresher(n)
  BY DEF Fresher
<1>2. Fresh(n + 1) \notin Fresher(n)
  BY KeysApart DEF Fresher
<1>3. \A r \in CatalogRow(n) : r \in CatalogRow(n + 1)
  BY <1>1 DEF CatalogRow
<1>4. \A r \in Writer(n) : r \in Writer(n + 1)
  BY <1>1, <1>3 DEF Writer
<1> QED BY <1>1, <1>2, <1>3, <1>4

LEMMA RestingTyped ==
    ASSUME NEW n \in Nat
    PROVE  /\ Resting \in Writer(n) /\ Resting.pc = "idle" /\ Resting.read = NoRow /\ Resting.key = NoKey
           /\ NoRow \in CatalogRow(n) /\ RowWhole(NoRow) /\ NoRow.key = NoKey
<1>1. (CHOOSE p \in Paths : TRUE) \in Paths
  BY CatalogAssumption
<1>2. NoKey \in Fresher(n)
  BY DEF Fresher
<1>3. NoRow \in CatalogRow(n) /\ RowWhole(NoRow) /\ NoRow.key = NoKey
  BY <1>2 DEF NoRow, CatalogRow, RowWhole
<1> QED BY <1>1, <1>2, <1>3 DEF Resting, Writer

\* A process serves, and a writer works, only after the defaults are installed.
LEMMA BootKept ==
    ASSUME BootFirst, mark, mark' = mark, seeder' = seeder
    PROVE  BootFirst'
BY DEF BootFirst

LEMMA Working ==
    ASSUME CatalogInv, NEW w \in Writers, Up \/ writer[w].pc # "idle"
    PROVE  mark
<1>1. Resting.pc = "idle"
  BY DEF Resting
<1> QED BY <1>1 DEF CatalogInv, BootFirst, CatalogTypes, Up

\* A writer takes a step that changes no row.
LEMMA WriterTurns ==
    ASSUME CatalogInv, mark, NEW w \in Writers, NEW x \in Writer(next),
           writer' = [writer EXCEPT ![w] = x], UNCHANGED <<rows, next, seeder, mark, deleted>>,
           boots' \in 0 .. MaxBoots, RowWhole(x.read), objects' \subseteq Fresher(next),
           x.pc \in Bringing => writer[w].pc \in Bringing /\ x.key = writer[w].key,
           x.pc \in {"save", "commit"} => x.key \in objects',
           \A p \in Paths : x.read.key # NoKey /\ rows[p].key = x.read.key => p = x.path,
           \A v \in Writers : writer[v].pc \in Bringing => writer[v].key # x.read.key,
           Removing(x) => \A p \in Paths : rows[p].key = x.read.key => rows[p].key = NoKey,
           \A p \in Paths : rows[p].key # NoKey => rows[p].key \in objects',
           \A v \in Writers : v # w /\ writer[v].pc \in {"save", "commit"} => writer[v].key \in objects'
    PROVE  CatalogInv'
<1> USE DEF CatalogInv
<1>1. writer'[w] = x /\ \A v \in Writers : v # w => writer'[v] = writer[v]
  BY DEF CatalogTypes
<1>2. CatalogTypes'
  BY DEF CatalogTypes
<1>3. RowsWhole'
  BY <1>1 DEF RowsWhole, RowWhole
<1>4. BootFirst'
  BY BootKept
<1>5. KeyUnknown'
  BY <1>1 DEF KeyUnknown
<1>6. Brought'
  BY <1>1 DEF Brought
<1>7. OnePath'
  BY <1>1 DEF OnePath
<1>8. Removable'
  BY <1>1 DEF Removable, Removing
<1>9. HasObject' /\ DeletedStaysDeleted'
  BY DEF HasObject, DeletedStaysDeleted
<1> QED BY <1>2, <1>3, <1>4, <1>5, <1>6, <1>7, <1>8, <1>9

\* A writer is given up or ends, leaving the objects rows and writers need.
LEMMA WriterRests ==
    ASSUME CatalogInv, NEW w \in Writers, writer[w].pc # "idle", Rest(w),
           UNCHANGED <<rows, next, seeder, mark, deleted>>, boots' \in 0 .. MaxBoots,
           \/ objects' = objects
           \/ Removing(writer[w]) /\ objects' = objects \ {writer[w].read.key}
    PROVE  CatalogInv'
<1>1. mark /\ next \in Nat /\ objects' \subseteq Fresher(next)
  BY Working, CatalogAssumption DEF CatalogInv, CatalogTypes
<1>2. /\ Resting \in Writer(next) /\ Resting.pc = "idle" /\ Resting.read.key = NoKey
      /\ RowWhole(Resting.read)
  BY <1>1, RestingTyped
<1>3. \A p \in Paths : rows[p].key # NoKey => rows[p].key \in objects'
  BY DEF CatalogInv, HasObject, Removable
<1>4. \A v \in Writers : v # w /\ writer[v].pc \in {"save", "commit"} => writer[v].key \in objects'
  BY DEF CatalogInv, Brought, KeyUnknown, Bringing
<1>5. \A v \in Writers : writer[v].pc \in Bringing => writer[v].key # NoKey
  BY <1>1, KeysApart DEF CatalogInv, KeyUnknown
<1> QED BY <1>1, <1>2, <1>3, <1>4, <1>5, WriterTurns DEF Rest, Bringing, Removing

\* A writer starts with a key of its own, having read the row of its path.
LEMMA WriterStarts ==
    ASSUME CatalogInv, mark, NEW w \in Writers, NEW p \in Paths, NEW op \in {"upload", "import"},
           next < MaxKeys, next' = next + 1,
           writer' = [writer EXCEPT ![w] = [pc |-> "put", op |-> op, path |-> p, read |-> rows[p],
                                            key |-> Fresh(next + 1)]],
           UNCHANGED <<rows, objects, seeder, mark, deleted, overwritten, boots>>
    PROVE  CatalogInv'
<1> DEFINE x == [pc |-> "put", op |-> op, path |-> p, read |-> rows[p], key |-> Fresh(next + 1)]
<1> USE DEF CatalogInv
<1>1. next \in Nat /\ next + 1 \in 0 .. MaxKeys /\ rows[p] \in CatalogRow(next)
  BY CatalogAssumption DEF CatalogTypes
<1>2. x \in Writer(next + 1)
  BY <1>1, NextKey DEF Writer
<1>3. writer'[w] = x /\ \A v \in Writers : v # w => writer'[v] = writer[v]
  BY DEF CatalogTypes
<1>4. CatalogTypes'
  <2>1. writer' \in [Writers -> Writer(next + 1)]
    BY <1>1, <1>2, NextKey DEF CatalogTypes
  <2>2. rows' \in [Paths -> CatalogRow(next + 1)] /\ objects' \subseteq Fresher(next + 1)
    BY <1>1, NextKey DEF CatalogTypes
  <2> QED BY <1>1, <2>1, <2>2 DEF CatalogTypes
<1>5. /\ \A q \in Paths : rows[q].key \in Fresher(next) /\ rows[q].key # Fresh(next + 1)
      /\ \A v \in Writers : /\ writer[v].read.key # Fresh(next + 1)
                            /\ writer[v].key # Fresh(next + 1)
  <2>1. \A r \in CatalogRow(next) : r.key \in Fresher(next)
    BY DEF CatalogRow
  <2>2. \A v \in Writers : writer[v].read \in CatalogRow(next) /\ writer[v].key \in Fresher(next)
    BY DEF CatalogTypes, Writer
  <2> QED BY <1>1, <2>1, <2>2, NextKey DEF CatalogTypes
<1>6. x.pc = "put" /\ x.op = op /\ x.path = p /\ x.read = rows[p] /\ x.key = Fresh(next + 1)
  OBVIOUS
<1> HIDE DEF x
<1>7. RowsWhole'
  BY <1>3, <1>6 DEF RowsWhole, RowWhole
<1>8. BootFirst'
  BY BootKept
<1>9. KeyUnknown'
  <2> SUFFICES ASSUME NEW v \in Writers, writer'[v].pc \in Bringing
               PROVE  /\ \E n \in 1 .. next' : writer'[v].key = Fresh(n)
                      /\ \A q \in Paths : rows'[q].key # writer'[v].key
                      /\ \A u \in Writers : writer'[u].read.key # writer'[v].key
                      /\ \A u \in Writers : writer'[u].pc \in Bringing /\ writer'[u].key = writer'[v].key => u = v
    BY DEF KeyUnknown
  <2>1. CASE v = w
    BY <1>1, <1>3, <1>5, <1>6, <2>1
  <2>2. CASE v # w
    <3>1. writer'[v] = writer[v] /\ writer[v].pc \in Bringing
      BY <1>3, <2>2
    <3>2. PICK n \in 1 .. next : writer[v].key = Fresh(n)
      BY <3>1 DEF KeyUnknown
    <3>3. n \in 1 .. next'
      BY <1>1, <3>2
    <3> QED BY <1>3, <1>5, <1>6, <3>1, <3>2, <3>3 DEF KeyUnknown
  <2> QED BY <2>1, <2>2
<1>10. Brought'
  BY <1>3, <1>6 DEF Brought
<1>11. OnePath'
  BY <1>3, <1>6 DEF OnePath
<1>12. Removable'
  BY <1>3, <1>6 DEF Removable, Removing
<1>13. HasObject' /\ DeletedStaysDeleted'
  BY DEF HasObject, DeletedStaysDeleted
<1> QED BY <1>4, <1>7, <1>8, <1>9, <1>10, <1>11, <1>12, <1>13
\* Only the key changes hands when a row is committed.
LEMMA CommitKeeps ==
    ASSUME CatalogInv, NEW w \in Writers, save_entry_commit(w)
    PROVE  CatalogInv'
<1> DEFINE p == writer[w].path
           k == writer[w].key
           x == [writer[w] EXCEPT !.pc = "supersede"]
<1>1. /\ mark /\ next \in Nat /\ writer[w].pc = "commit" /\ writer[w] \in Writer(next)
      /\ p \in Paths /\ rows[p] \in CatalogRow(next) /\ k \in Fresher(next)
      /\ boots \in 0 .. MaxBoots
  BY Working, CatalogAssumption DEF save_entry_commit, CatalogInv, CatalogTypes, Writer
<1>2. CASE rows[p].id # writer[w].read.id
  BY <1>1, <1>2, WriterRests DEF save_entry_commit
<1>3. CASE rows[p].id = writer[w].read.id
  <2> USE DEF CatalogInv
  <2>1. /\ rows' = [rows EXCEPT ![p] = [id |-> IF @ = NoRow THEN k ELSE @.id, key |-> k]]
        /\ writer' = [writer EXCEPT ![w] = x] /\ UNCHANGED <<objects, next, seeder, mark, deleted, boots>>
    BY <1>3 DEF save_entry_commit, Step
  <2>2. /\ rows'[p].key = k /\ rows'[p] = [id |-> IF rows[p] = NoRow THEN k ELSE rows[p].id, key |-> k]
        /\ \A q \in Paths : q # p => rows'[q] = rows[q]
    BY <1>1, <2>1 DEF CatalogTypes
  <2>3. /\ writer'[w] = x /\ x.pc = "supersede" /\ x.read = writer[w].read /\ x.path = p
        /\ x.op = writer[w].op /\ x \in Writer(next)
        /\ \A v \in Writers : v # w => writer'[v] = writer[v]
    BY <1>1, <2>1 DEF CatalogTypes, Writer
  <2>4. /\ k # NoKey /\ k \in objects /\ \A d \in Defaults : k # Literal[d]
        /\ \A q \in Paths : rows[q].key # k
        /\ \A v \in Writers : writer[v].read.key # k
        /\ \A v \in Writers : writer[v].pc \in Bringing /\ writer[v].key = k => v = w
    <3>1. writer[w].pc \in Bringing
      BY <1>1 DEF Bringing
    <3>2. PICK n \in 1 .. next : k = Fresh(n)
      BY <3>1 DEF KeyUnknown
    <3> QED BY <1>1, <3>1, <3>2, KeysApart DEF KeyUnknown, Brought
  <2> HIDE DEF x, k
  <2>5. rows[p] = NoRow \/ rows[p].id # NoKey
    BY <1>1 DEF RowsWhole, RowWhole, CatalogRow, NoRow
  <2>6. CatalogTypes'
    <3>1. [id |-> IF rows[p] = NoRow THEN k ELSE rows[p].id, key |-> k] \in CatalogRow(next)
      BY <1>1 DEF CatalogRow
    <3>2. rows' \in [Paths -> CatalogRow(next)] /\ writer' \in [Writers -> Writer(next)]
      BY <1>1, <2>1, <2>3, <3>1 DEF CatalogTypes
    <3> QED BY <2>1, <3>2 DEF CatalogTypes
  <2>7. RowsWhole'
    <3>1. RowWhole(rows'[p])
      BY <2>2, <2>4, <2>5 DEF RowWhole
    <3>2. \A q \in Paths : RowWhole(rows'[q])
      BY <2>2, <3>1 DEF RowsWhole
    <3>3. \A v \in Writers : RowWhole(writer'[v].read)
      BY <2>3 DEF RowsWhole
    <3> QED BY <3>2, <3>3 DEF RowsWhole, RowWhole
  <2>8. BootFirst'
    BY <1>1, <2>1, BootKept
  <2>9. KeyUnknown'
    BY <2>1, <2>2, <2>3, <2>4 DEF KeyUnknown, Bringing
  <2>10. Brought'
    BY <2>1, <2>3 DEF Brought
  <2>11. OnePath'
    BY <2>2, <2>3, <2>4 DEF OnePath
  <2>12. Removable'
    <3> SUFFICES ASSUME NEW v \in Writers, Removing(writer'[v]), NEW q \in Paths,
                        rows'[q].key = writer'[v].read.key
                 PROVE  rows'[q].key = NoKey
      BY DEF Removable, Removing
    <3>1. writer'[v].read = writer[v].read /\ q # p
      BY <2>2, <2>3, <2>4
    <3>2. CASE v = w
      BY <2>2, <3>1, <3>2 DEF OnePath
    <3>3. CASE v # w
      BY <2>2, <2>3, <3>1, <3>3 DEF Removable
    <3> QED BY <3>2, <3>3
  <2>13. HasObject'
    BY <2>1, <2>2, <2>4 DEF HasObject
  <2>14. DeletedStaysDeleted'
    BY <1>1, <2>1, <2>2, <2>4 DEF DeletedStaysDeleted, CatalogTypes
  <2> QED BY <2>6, <2>7, <2>8, <2>9, <2>10, <2>11, <2>12, <2>13, <2>14
<1> QED BY <1>2, <1>3

\* A row that is deleted takes its object with it, and no other row had it.
LEMMA DeleteKeeps ==
    ASSUME CatalogInv, NEW w \in Writers, delete_entry_commit(w)
    PROVE  CatalogInv'
<1> DEFINE p == writer[w].path
           x == [writer[w] EXCEPT !.pc = "discard"]
<1>1. /\ mark /\ next \in Nat /\ writer[w].pc = "delete" /\ writer[w] \in Writer(next)
      /\ p \in Paths /\ boots \in 0 .. MaxBoots
  BY Working, CatalogAssumption DEF delete_entry_commit, CatalogInv, CatalogTypes, Writer
<1>2. CASE rows[p].id # writer[w].read.id
  BY <1>1, <1>2, WriterRests DEF delete_entry_commit
<1>3. CASE rows[p].id = writer[w].read.id
  <2> USE DEF CatalogInv
  <2>1. /\ rows' = [rows EXCEPT ![p] = NoRow] /\ writer' = [writer EXCEPT ![w] = x]
        /\ deleted' \subseteq deleted \cup {p} /\ deleted' \subseteq Defaults
        /\ UNCHANGED <<objects, next, seeder, mark, boots>>
    BY <1>3 DEF delete_entry_commit, Step, CatalogTypes
  <2>2. /\ rows'[p] = NoRow /\ NoRow.key = NoKey /\ RowWhole(NoRow) /\ NoRow \in CatalogRow(next)
        /\ \A q \in Paths : q # p => rows'[q] = rows[q]
    BY <1>1, <2>1, RestingTyped DEF CatalogTypes
  <2>3. /\ writer'[w] = x /\ x.pc = "discard" /\ x.read = writer[w].read /\ x.path = p
        /\ x \in Writer(next)
        /\ \A v \in Writers : v # w => writer'[v] = writer[v]
    BY <1>1, <2>1 DEF CatalogTypes, Writer
  <2> HIDE DEF x
  <2>4. \A v \in Writers : writer[v].pc \in Bringing => writer[v].key # NoKey
    BY <1>1, KeysApart DEF KeyUnknown
  <2>5. CatalogTypes'
    BY <1>1, <2>1, <2>2, <2>3 DEF CatalogTypes
  <2>6. RowsWhole'
    BY <2>2, <2>3 DEF RowsWhole, RowWhole
  <2>7. BootFirst'
    BY <1>1, <2>1, BootKept
  <2>8. KeyUnknown'
    BY <2>1, <2>2, <2>3, <2>4 DEF KeyUnknown, Bringing
  <2>9. Brought'
    BY <2>1, <2>3 DEF Brought
  <2>10. OnePath'
    BY <2>2, <2>3 DEF OnePath
  <2>11. Removable'
    <3> SUFFICES ASSUME NEW v \in Writers, Removing(writer'[v]), NEW q \in Paths,
                        rows'[q].key = writer'[v].read.key, q # p
                 PROVE  rows'[q].key = NoKey
      BY <2>2 DEF Removable, Removing
    <3>1. CASE v = w
      BY <2>2, <2>3, <3>1 DEF OnePath
    <3>2. CASE v # w
      BY <2>2, <2>3, <3>2 DEF Removable
    <3> QED BY <3>1, <3>2
  <2>12. HasObject'
    BY <2>1, <2>2 DEF HasObject
  <2>13. DeletedStaysDeleted'
    <3> SUFFICES ASSUME NEW q \in deleted' PROVE rows'[q].key # Literal[q]
      BY DEF DeletedStaysDeleted
    <3>1. CASE q = p
      BY <2>1, <2>2, <3>1, KeysApart
    <3>2. CASE q # p
      <4>1. q \in deleted /\ q \in Paths
        BY <2>1, <3>2, CatalogAssumption
      <4> QED BY <2>2, <3>2, <4>1 DEF DeletedStaysDeleted
    <3> QED BY <3>1, <3>2
  <2> QED BY <2>5, <2>6, <2>7, <2>8, <2>9, <2>10, <2>11, <2>12, <2>13
<1> QED BY <1>2, <1>3
\* A booting process installs rows and objects together, before anybody writes.
LEMMA SeederKeeps ==
    ASSUME OneSeeder, CatalogInv, NEW s \in Seeders,
           _seed_namespace(s) \/ _install_objects(s) \/ _statements(s) \/ _mark(s) \/ SeederDies(s)
    PROVE  CatalogInv'
<1> USE DEF CatalogInv
<1>0. writer' = writer /\ next' = next /\ deleted' = deleted
  BY DEF _seed_namespace, _install_objects, _statements, _mark, SeederDies
<1>1. CASE _seed_namespace(s) \/ _mark(s) \/ SeederDies(s)
  <2>1. rows' = rows /\ objects' = objects
    BY <1>1 DEF _seed_namespace, _mark, SeederDies
  <2>2. boots' \in 0 .. MaxBoots
    BY <1>1, CatalogAssumption DEF _seed_namespace, _mark, SeederDies, CatalogTypes
  <2>3. mark' \in BOOLEAN /\ seeder' \in [Seeders -> {"off", "install", "rows", "mark", "up"}]
    BY <1>1 DEF _seed_namespace, _mark, SeederDies, CatalogTypes
  <2>4. CatalogTypes'
    BY <1>0, <2>1, <2>2, <2>3 DEF CatalogTypes
  <2>5. /\ mark' = mark \/ mark'
        /\ \A t \in Seeders : t # s => seeder'[t] = seeder[t]
        /\ seeder'[s] = "install" => ~mark /\ mark' = mark
        /\ seeder'[s] # "rows"
        /\ seeder'[s] = "up" => mark'
        /\ mark' # mark => seeder'[s] = "up"
    BY <1>1 DEF _seed_namespace, _mark, SeederDies, CatalogTypes
  <2>6. BootFirst'
    <3>1. ~mark' => ~mark /\ mark' = mark
      BY <2>3, <2>5 DEF CatalogTypes
    <3>2. ~mark' => /\ \A w \in Writers : writer'[w] = Resting
                    /\ deleted' = {}
                    /\ \A p \in Paths : rows'[p].key # NoKey => p \in Defaults /\ rows'[p].key = Literal[p]
                    /\ \A t \in Seeders : seeder'[t] # "up"
      BY <1>0, <2>1, <2>5, <3>1 DEF BootFirst
    <3>3. \A t \in Seeders : seeder'[t] \in {"install", "rows"} => ~mark'
      BY <2>3, <2>5 DEF BootFirst, OneSeeder, CatalogTypes
    <3>4. \A t \in Seeders : seeder'[t] = "rows" => \A p \in Defaults : Literal[p] \in objects'
      BY <2>1, <2>5 DEF BootFirst
    <3> QED BY <3>2, <3>3, <3>4 DEF BootFirst
  <2>7. RowsWhole' /\ KeyUnknown' /\ Brought' /\ OnePath'
    BY <1>0, <2>1 DEF RowsWhole, RowWhole, KeyUnknown, Brought, OnePath
  <2>8. Removable' /\ HasObject' /\ DeletedStaysDeleted'
    BY <1>0, <2>1 DEF Removable, Removing, HasObject, DeletedStaysDeleted
  <2> QED BY <2>4, <2>6, <2>7, <2>8
<1>2. CASE _install_objects(s)
  <2>1. /\ objects' = objects \cup {Literal[p] : p \in Defaults} /\ UNCHANGED <<rows, mark, boots>>
        /\ seeder[s] = "install" /\ seeder' = [seeder EXCEPT ![s] = "rows"]
    BY <1>2 DEF _install_objects
  <2>2. \A p \in Defaults : Literal[p] \in Fresher(next)
    BY DEF Fresher
  <2>3. CatalogTypes'
    BY <1>0, <2>1, <2>2 DEF CatalogTypes
  <2>4. seeder'[s] = "rows" /\ \A t \in Seeders : t # s => seeder'[t] = seeder[t]
    BY <2>1 DEF CatalogTypes
  <2>5. BootFirst'
    <3>1. ~mark' => /\ \A w \in Writers : writer'[w] = Resting
                    /\ deleted' = {}
                    /\ \A p \in Paths : rows'[p].key # NoKey => p \in Defaults /\ rows'[p].key = Literal[p]
                    /\ \A t \in Seeders : seeder'[t] # "up"
      BY <1>0, <2>1, <2>4 DEF BootFirst
    <3>2. \A t \in Seeders : seeder'[t] \in {"install", "rows"} => ~mark'
      BY <2>1, <2>4 DEF BootFirst
    <3>3. \A t \in Seeders : seeder'[t] = "rows" => \A p \in Defaults : Literal[p] \in objects'
      BY <2>1, <2>4 DEF BootFirst
    <3> QED BY <3>1, <3>2, <3>3 DEF BootFirst
  <2>6. RowsWhole' /\ KeyUnknown' /\ Brought' /\ OnePath'
    BY <1>0, <2>1 DEF RowsWhole, RowWhole, KeyUnknown, Brought, OnePath
  <2>7. Removable' /\ HasObject' /\ DeletedStaysDeleted'
    BY <1>0, <2>1 DEF Removable, Removing, HasObject, DeletedStaysDeleted
  <2> QED BY <2>3, <2>5, <2>6, <2>7
<1>3. CASE _statements(s)
  <2>1. /\ rows' = [p \in Paths |-> IF p \in Defaults /\ rows[p] = NoRow
                                    THEN [id |-> Literal[p], key |-> Literal[p]] ELSE rows[p]]
        /\ seeder[s] = "rows" /\ seeder' = [seeder EXCEPT ![s] = "mark"] /\ UNCHANGED <<objects, mark, boots>>
    BY <1>3 DEF _statements
  <2>2. /\ ~mark /\ deleted = {} /\ \A w \in Writers : writer[w] = Resting
        /\ \A p \in Defaults : Literal[p] \in objects
        /\ \A p \in Paths : rows[p].key # NoKey => p \in Defaults /\ rows[p].key = Literal[p]
        /\ \A t \in Seeders : seeder[t] # "up"
    BY <2>1 DEF BootFirst
  <2>3. \A p \in Defaults : Literal[p] \in Fresher(next) /\ Literal[p] # NoKey
    BY KeysApart DEF Fresher
  <2>4. /\ Resting.pc = "idle" /\ Resting.read.key = NoKey
        /\ NoRow.key = NoKey
    BY DEF Resting, NoRow
  <2>5. \A p \in Paths : \/ rows'[p] = rows[p]
                         \/ /\ p \in Defaults /\ rows'[p] = [id |-> Literal[p], key |-> Literal[p]]
                            /\ rows'[p].id = Literal[p] /\ rows'[p].key = Literal[p]
    BY <2>1
  <2>6. CatalogTypes'
    <3>1. \A p \in Paths : rows'[p] \in CatalogRow(next)
      <4> TAKE p \in Paths
      <4>1. CASE rows'[p] = rows[p]
        BY <4>1 DEF CatalogTypes
      <4>2. CASE p \in Defaults /\ rows'[p] = [id |-> Literal[p], key |-> Literal[p]]
        BY <2>3, <4>2 DEF CatalogRow
      <4> QED BY <2>5, <4>1, <4>2
    <3>2. rows' \in [Paths -> CatalogRow(next)]
      BY <2>1, <3>1
    <3> QED BY <1>0, <2>1, <3>2 DEF CatalogTypes
  <2>7. RowsWhole'
    <3>1. \A p \in Paths : RowWhole(rows'[p])
      <4> TAKE p \in Paths
      <4>1. CASE rows'[p] = rows[p]
        BY <4>1 DEF RowsWhole
      <4>2. CASE p \in Defaults /\ rows'[p].id = Literal[p] /\ rows'[p].key = Literal[p]
        BY <2>3, <4>2 DEF RowWhole
      <4> QED BY <2>5, <4>1, <4>2
    <3> QED BY <1>0, <3>1 DEF RowsWhole, RowWhole
  <2>8. \A p \in Paths : rows'[p].key # NoKey => p \in Defaults /\ rows'[p].key = Literal[p]
    <3> SUFFICES ASSUME NEW p \in Paths, rows'[p].key # NoKey
                 PROVE  p \in Defaults /\ rows'[p].key = Literal[p]
      OBVIOUS
    <3>1. CASE rows'[p] = rows[p]
      BY <2>2, <3>1
    <3> QED BY <2>5, <3>1
  <2>9. seeder'[s] = "mark" /\ \A t \in Seeders : t # s => seeder'[t] = seeder[t]
    BY <2>1 DEF CatalogTypes
  <2>10. BootFirst'
    BY <1>0, <2>1, <2>2, <2>8, <2>9 DEF BootFirst
  <2>11. KeyUnknown' /\ Brought' /\ Removable'
    BY <1>0, <2>2, <2>4 DEF KeyUnknown, Brought, Removable, Removing, Bringing
  <2>12. OnePath'
    BY <1>0, <2>2, <2>4, <2>8, KeysApart DEF OnePath
  <2>13. HasObject' /\ DeletedStaysDeleted'
    BY <1>0, <2>1, <2>2, <2>8 DEF HasObject, DeletedStaysDeleted
  <2> QED BY <2>6, <2>7, <2>10, <2>11, <2>12, <2>13
<1> QED BY <1>1, <1>2, <1>3

LEMMA CatalogStart == CatalogInit => CatalogInv
<1> SUFFICES ASSUME CatalogInit PROVE CatalogInv
  OBVIOUS
<1>1. /\ Resting \in Writer(0) /\ Resting.pc = "idle" /\ Resting.read = NoRow
      /\ NoRow \in CatalogRow(0) /\ RowWhole(NoRow) /\ NoRow.key = NoKey
  BY RestingTyped
<1>2. /\ \A p \in Paths : rows[p] = NoRow
      /\ \A w \in Writers : writer[w] = Resting
      /\ \A s \in Seeders : seeder[s] = "off"
      /\ objects = {} /\ next = 0 /\ boots = 0 /\ mark = FALSE /\ deleted = {}
  BY DEF CatalogInit
<1>3. CatalogTypes
  <2>1. rows \in [Paths -> CatalogRow(0)] /\ writer \in [Writers -> Writer(0)]
    BY <1>1 DEF CatalogInit
  <2>2. seeder \in [Seeders -> {"off", "install", "rows", "mark", "up"}]
    BY DEF CatalogInit
  <2>3. 0 \in 0 .. MaxKeys /\ 0 \in 0 .. MaxBoots
    BY CatalogAssumption
  <2> QED BY <1>2, <2>1, <2>2, <2>3 DEF CatalogTypes
<1>4. RowsWhole /\ BootFirst /\ OnePath /\ Removable /\ HasObject /\ DeletedStaysDeleted
  BY <1>1, <1>2 DEF RowsWhole, BootFirst, OnePath, Removable, Removing, HasObject, DeletedStaysDeleted
<1>5. KeyUnknown /\ Brought
  BY <1>1, <1>2 DEF KeyUnknown, Brought, Bringing
<1> QED BY <1>3, <1>4, <1>5 DEF CatalogInv

LEMMA CatalogStep == OneSeeder /\ CatalogInv /\ [CatalogNext]_catalogVars => CatalogInv'
<1> SUFFICES ASSUME OneSeeder, CatalogInv, [CatalogNext]_catalogVars PROVE CatalogInv'
  OBVIOUS
<1>0. /\ next \in Nat /\ boots \in 0 .. MaxBoots /\ objects \subseteq Fresher(next)
      /\ \A w \in Writers : writer[w] \in Writer(next)
      /\ \A p \in Paths : rows[p] \in CatalogRow(next)
  BY CatalogAssumption DEF CatalogInv, CatalogTypes
<1>1. ASSUME NEW w \in Writers, upload_tool(w) PROVE CatalogInv'
  <2>1. mark
    BY <1>1, Working DEF upload_tool
  <2> QED BY <1>1, <2>1, WriterStarts DEF upload_tool
<1>2. ASSUME NEW w \in Writers, _import_entry(w) PROVE CatalogInv'
  <2>1. mark
    BY <1>2, Working DEF _import_entry
  <2> QED BY <1>2, <2>1, WriterStarts DEF _import_entry
<1>3. ASSUME NEW w \in Writers, put(w) PROVE CatalogInv'
  <2>1. CASE UNCHANGED objects /\ Rest(w)
    BY <1>0, <1>3, <2>1, WriterRests DEF put
  <2>2. CASE objects' = objects \cup {writer[w].key} /\ Step(w, "save")
    <3> DEFINE x == [writer[w] EXCEPT !.pc = "save"]
    <3>1. /\ x \in Writer(next) /\ x.pc = "save" /\ x.read = writer[w].read /\ x.key = writer[w].key
          /\ x.path = writer[w].path /\ x.op = writer[w].op /\ writer[w].key \in Fresher(next)
      BY <1>0 DEF Writer
    <3>2. mark /\ writer[w].pc = "put"
      BY <1>3, Working DEF put
    <3>3. writer' = [writer EXCEPT ![w] = x] /\ UNCHANGED <<rows, next, seeder, mark, deleted, boots>>
      BY <1>3, <2>2 DEF Step, put
    <3> HIDE DEF x
    <3>4. RowWhole(x.read) /\ \A p \in Paths : x.read.key # NoKey /\ rows[p].key = x.read.key => p = x.path
      BY <3>1 DEF CatalogInv, RowsWhole, OnePath
    <3>5. \A v \in Writers : writer[v].pc \in Bringing => writer[v].key # x.read.key
      BY <3>1 DEF CatalogInv, KeyUnknown
    <3>6. /\ \A p \in Paths : rows[p].key # NoKey => rows[p].key \in objects'
          /\ \A v \in Writers : v # w /\ writer[v].pc \in {"save", "commit"} => writer[v].key \in objects'
      BY <2>2 DEF CatalogInv, HasObject, Brought
    <3> QED BY <1>0, <2>2, <3>1, <3>2, <3>3, <3>4, <3>5, <3>6, WriterTurns DEF Bringing, Removing
  <2> QED BY <1>3, <2>1, <2>2 DEF put
<1>4. ASSUME NEW w \in Writers, save_entry(w) PROVE CatalogInv'
  <2> DEFINE found == IF rows[writer[w].path].id = writer[w].read.id THEN writer[w].read ELSE rows[writer[w].path]
             x == [writer[w] EXCEPT !.pc = "commit", !.read = found]
  <2>1. mark /\ writer[w].pc = "save" /\ writer[w].path \in Paths
    BY <1>0, <1>4, Working DEF save_entry, Writer
  <2>2. writer' = [writer EXCEPT ![w] = x] /\ UNCHANGED <<rows, objects, next, seeder, mark, deleted, boots>>
    BY <1>4 DEF save_entry
  <2>3. found \in CatalogRow(next)
    BY <1>0, <2>1 DEF Writer
  <2>4. /\ RowWhole(found)
        /\ \A p \in Paths : found.key # NoKey /\ rows[p].key = found.key => p = writer[w].path
        /\ \A v \in Writers : writer[v].pc \in Bringing => writer[v].key # found.key
    BY <2>1 DEF CatalogInv, RowsWhole, OnePath, KeyUnknown
  <2>5. /\ x \in Writer(next) /\ x.pc = "commit" /\ x.read = found /\ x.key = writer[w].key
        /\ x.path = writer[w].path
    BY <1>0, <2>3 DEF Writer
  <2> HIDE DEF x, found
  <2>6. /\ \A p \in Paths : rows[p].key # NoKey => rows[p].key \in objects'
        /\ \A v \in Writers : writer[v].pc \in {"save", "commit"} => writer[v].key \in objects'
    BY <2>2 DEF CatalogInv, HasObject, Brought
  <2> QED BY <1>0, <2>1, <2>2, <2>4, <2>5, <2>6, WriterTurns DEF Bringing, Removing
<1>5. ASSUME NEW w \in Writers, upload_supersedes(w) \/ import_supersedes(w) \/ delete_object(w) \/ WriterDies(w)
      PROVE  CatalogInv'
  <2>1. boots' \in 0 .. MaxBoots
    BY <1>0, <1>5, CatalogAssumption DEF upload_supersedes, import_supersedes, delete_object, WriterDies
  <2>2. CASE upload_supersedes(w) \/ WriterDies(w)
    BY <2>1, <2>2, WriterRests DEF upload_supersedes, WriterDies, Is
  <2>3. CASE import_supersedes(w) \/ delete_object(w)
    BY <2>1, <2>3, WriterRests DEF import_supersedes, delete_object, Is, Removing
  <2> QED BY <1>5, <2>2, <2>3
<1>6. ASSUME NEW w \in Writers, delete_entry(w) PROVE CatalogInv'
  <2>1. PICK p \in Paths : writer' = [writer EXCEPT ![w] = [pc |-> "delete", op |-> "delete", path |-> p,
                                                            read |-> rows[p], key |-> NoKey]]
    BY <1>6 DEF delete_entry
  <2> DEFINE x == [pc |-> "delete", op |-> "delete", path |-> p, read |-> rows[p], key |-> NoKey]
  <2>2. x \in Writer(next) /\ x.pc = "delete" /\ x.read = rows[p] /\ x.path = p
    BY <1>0, NextKey DEF Writer
  <2>3. mark /\ UNCHANGED <<rows, objects, next, seeder, mark, deleted, boots>>
    BY <1>6, Working DEF delete_entry
  <2>4. writer' = [writer EXCEPT ![w] = x]
    BY <2>1
  <2> HIDE DEF x
  <2>5. /\ RowWhole(x.read)
        /\ \A q \in Paths : x.read.key # NoKey /\ rows[q].key = x.read.key => q = x.path
        /\ \A v \in Writers : writer[v].pc \in Bringing => writer[v].key # x.read.key
    BY <2>2 DEF CatalogInv, RowsWhole, OnePath, KeyUnknown
  <2>6. /\ \A q \in Paths : rows[q].key # NoKey => rows[q].key \in objects'
        /\ \A v \in Writers : writer[v].pc \in {"save", "commit"} => writer[v].key \in objects'
    BY <2>3 DEF CatalogInv, HasObject, Brought
  <2> QED BY <1>0, <2>2, <2>3, <2>4, <2>5, <2>6, WriterTurns DEF Bringing, Removing
<1>7. CASE UNCHANGED catalogVars
  BY <1>7 DEF catalogVars, CatalogInv, CatalogTypes, RowsWhole, RowWhole, BootFirst, KeyUnknown, Brought,
              OnePath, Removable, Removing, HasObject, DeletedStaysDeleted
<1> QED
  BY <1>1, <1>2, <1>3, <1>4, <1>5, <1>6, <1>7, CommitKeeps, DeleteKeeps, SeederKeeps DEF CatalogNext

\* While one process boots at a time, a row of the catalog names an object that is
\* in the store, and a default that an administrator deleted is not brought back,
\* whatever uploads, imports, deletes and boots overlap or die (save_entry,
\* delete_entry of services/tool_catalog.py, ensure_seed of services/catalog_seed.py).
THEOREM CatalogHolds == ASSUME OneSeeder PROVE CatalogSpec => []CatalogTrue
<1>1. CatalogInv => CatalogTrue
  <2> SUFFICES ASSUME CatalogInv PROVE CatalogTrue
    OBVIOUS
  <2> USE DEF CatalogInv
  <2>1. next \in 0 .. MaxKeys /\ boots \in 0 .. MaxBoots
    BY DEF CatalogTypes
  <2>2. Fresher(next) \subseteq AnyKey
    BY <2>1, CatalogAssumption DEF Fresher, AnyKey
  <2>3. rows \in [Paths -> CatalogEntry] /\ objects \subseteq AnyKey
    BY <2>2 DEF CatalogTypes, CatalogRow, CatalogEntry
  <2>4. CatalogTypeOK
    BY <2>1, <2>3 DEF CatalogTypeOK, RowsWhole, RowWhole
  <2>5. RowHasObject
    <3> SUFFICES ASSUME NEW p \in Paths, rows[p] # NoRow PROVE rows[p].key \in objects
      BY DEF RowHasObject
    <3>1. rows[p] \in CatalogRow(next) /\ RowWhole(rows[p])
      BY DEF CatalogTypes, RowsWhole
    <3>2. rows[p].key # NoKey
      BY <3>1 DEF CatalogRow, RowWhole, NoRow
    <3> QED BY <3>2 DEF HasObject
  <2> QED BY <2>4, <2>5 DEF CatalogTrue
<1>2. CatalogInv /\ [CatalogNext]_catalogVars => CatalogInv'
  BY CatalogStep
<1> QED BY <1>1, <1>2, CatalogStart, PTL DEF CatalogSpec

-----------------------------------------------------------------------------
(* The mirrors' cache.                                                     *)

Places == {"idle", "read", "ask", "meta", "put", "put_meta", "link", "again", "scan", "evict",
           "linked", "open", "fetch", "tarball", "record"}
Request == [pc : Places, repo : Repos, key : Blobs \cup {"doc"}, version : 0 .. MaxVersion,
            plan : SUBSET (Nat \X Keys), over : Nat, then : {"idle", "put_meta", "link", "again", "open"}]

\* A directory: what can be verified is whole, and a document is a version.
Directory(d, now) ==
    /\ DOMAIN d \subseteq Keys /\ d = [k \in DOMAIN d |-> d[k]] /\ IsFiniteSet(Bytes(DOMAIN d))
    /\ \A k \in DOMAIN d : d[k] = [is |-> d[k].is, at |-> d[k].at] /\ d[k].at \in 0 .. now
    /\ \A k \in DOMAIN d \cap Sha256 : d[k].is = 1
    /\ "doc" \in DOMAIN d => d["doc"].is \in 0 .. MaxVersion

\* What a request is about to do with a blob: it is the repository's own when
\* it is recorded or served.
Placed(r) ==
    /\ r.pc = "evict" <=> r.over > 0
    /\ r.pc \in {"linked", "fetch", "record", "tarball"} => r.key \in Blobs
    /\ r.pc = "record" \/ (mirror = "docker" /\ r.pc = "open") => r.key \in Contains[r.repo]
    /\ r.pc = "tarball" => mirror = "npm"
    /\ mirror = "docker" => r.then # "open"

Linked == \A l \in links : \E r \in Repos : \E d \in Contains[r] : l = <<r, d>>

\* The directory without the index, which the last request may write and not
\* weigh, is within the budget, or somebody is going to look, or removes, of
\* what it saw, all that is too much, and nothing has come since.
Weight == Cardinality(Bytes(DOMAIN disk \ {"index"}))
Planned(c) == {e[2] : e \in client[c].plan}
Clearing(c) ==
    /\ On(c, "evict") /\ \A e, f \in client[c].plan : e[2] = f[2] => e = f
    /\ DOMAIN disk \ {"index"} \subseteq Planned(c)
    /\ Weight + (IF "index" \in Planned(c) THEN Size["index"] ELSE 0) <= Budget + client[c].over
Weighed == hurt = 0 => \/ Weight <= Budget
                       \/ \E c \in Clients : client[c].pc \in {"record", "scan"} \/ Clearing(c)

MirrorCounts ==
    /\ mirror \in {"docker", "npm", "apt"} /\ clock \in 0 .. MaxTime /\ hurt \in 0 .. MaxMirrorFaults
    /\ \E n \in 0 .. MaxVersion : DOMAIN upstream = 0 .. n
MirrorInv ==
    /\ MirrorCounts /\ Directory(disk, clock) /\ Linked /\ Weighed
    /\ client \in [Clients -> Request] /\ \A c \in Clients : Placed(client[c])

USE MirrorAssumption

-----------------------------------------------------------------------------
(* Bytes.                                                                  *)

LEMMA BytesOfOne ==
    ASSUME NEW k \in Keys
    PROVE  IsFiniteSet(Bytes({k})) /\ Cardinality(Bytes({k})) = Size[k]
<1>1. Bytes({k}) = {k} \X (1 .. Size[k])
  BY DEF Bytes
<1>2. IsFiniteSet({k}) /\ Cardinality({k}) = 1
  BY FS_Singleton
<1>3. Size[k] \in Nat
  OBVIOUS
<1>4. IsFiniteSet(1 .. Size[k]) /\ Cardinality(1 .. Size[k]) = Size[k]
  BY <1>3, FS_Interval
<1>5. IsFiniteSet({k} \X (1 .. Size[k])) /\ Cardinality({k} \X (1 .. Size[k])) = 1 * Size[k]
  BY <1>2, <1>4, FS_Product
<1>6. 1 * Size[k] = Size[k]
  BY <1>3
<1> QED BY <1>1, <1>5, <1>6

LEMMA BytesAdd ==
    ASSUME NEW S, S \subseteq Keys, NEW k \in Keys, IsFiniteSet(Bytes(S)), k \notin S
    PROVE  /\ IsFiniteSet(Bytes(S \cup {k})) /\ Cardinality(Bytes(S)) \in Nat
           /\ Cardinality(Bytes(S \cup {k})) = Cardinality(Bytes(S)) + Size[k]
<1>1. Bytes(S \cup {k}) = Bytes(S) \cup Bytes({k})
  BY DEF Bytes
<1>2. Bytes(S) \cap Bytes({k}) = {}
  BY DEF Bytes
<1>3. Cardinality(Bytes(S) \cap Bytes({k})) = 0
  BY <1>2, FS_EmptySet
<1>4. Size[k] \in Nat /\ Cardinality(Bytes(S)) \in Nat
  BY FS_CardinalityType
<1>5. /\ IsFiniteSet(Bytes(S) \cup Bytes({k}))
      /\ Cardinality(Bytes(S) \cup Bytes({k})) =
           Cardinality(Bytes(S)) + Cardinality(Bytes({k})) - Cardinality(Bytes(S) \cap Bytes({k}))
  BY BytesOfOne, FS_Union
<1>6. Cardinality(Bytes(S) \cup Bytes({k})) = Cardinality(Bytes(S)) + Size[k] - 0
  BY <1>3, <1>5, BytesOfOne
<1>7. Cardinality(Bytes(S)) + Size[k] - 0 = Cardinality(Bytes(S)) + Size[k]
  BY <1>4
<1> QED BY <1>1, <1>4, <1>5, <1>6, <1>7

LEMMA BytesLess ==
    ASSUME NEW S, NEW T, T \subseteq S, IsFiniteSet(Bytes(S))
    PROVE  /\ IsFiniteSet(Bytes(T)) /\ Cardinality(Bytes(T)) \in Nat /\ Cardinality(Bytes(S)) \in Nat
           /\ Cardinality(Bytes(T)) <= Cardinality(Bytes(S))
<1>1. Bytes(T) \in SUBSET Bytes(S)
  BY DEF Bytes
<1> QED BY <1>1, FS_Subset, FS_CardinalityType

LEMMA BytesRemove ==
    ASSUME NEW S, S \subseteq Keys, NEW k \in S, IsFiniteSet(Bytes(S))
    PROVE  /\ IsFiniteSet(Bytes(S \ {k})) /\ Cardinality(Bytes(S \ {k})) \in Nat
           /\ Cardinality(Bytes(S)) = Cardinality(Bytes(S \ {k})) + Size[k]
<1> DEFINE T == S \ {k}
<1>1. IsFiniteSet(Bytes(T)) /\ T \subseteq Keys /\ k \notin T /\ k \in Keys
  BY BytesLess
<1>2. T \cup {k} = S
  OBVIOUS
<1> QED BY <1>1, <1>2, BytesAdd

LEMMA NoBytes == Bytes({}) = {} /\ Cardinality(Bytes({})) = 0
BY FS_EmptySet DEF Bytes

-----------------------------------------------------------------------------
(* The directory.                                                          *)

LEMMA DirectoryPut ==
    ASSUME Directory(disk, clock), clock \in 0 .. MaxTime, NEW k \in Keys, NEW is,
           k \in Sha256 => is = 1, k = "doc" => is \in 0 .. MaxVersion
    PROVE  Directory(With(k, is), clock) /\ DOMAIN With(k, is) = DOMAIN disk \cup {k}
<1> DEFINE w == With(k, is)
<1>1. w = [x \in DOMAIN disk \cup {k} |-> IF x = k THEN [is |-> is, at |-> clock] ELSE disk[x]]
  BY DEF With
<1>2. DOMAIN w = DOMAIN disk \cup {k} /\ w = [x \in DOMAIN w |-> w[x]]
  BY <1>1
<1>3. \A x \in DOMAIN w : w[x] = IF x = k THEN [is |-> is, at |-> clock] ELSE disk[x]
  BY <1>1
<1> HIDE DEF w
<1>4. IsFiniteSet(Bytes(DOMAIN w))
  <2>1. CASE k \in DOMAIN disk
    <3>1. DOMAIN w = DOMAIN disk
      BY <1>2, <2>1
    <3> QED BY <3>1 DEF Directory
  <2>2. CASE k \notin DOMAIN disk
    BY <1>2, <2>2, BytesAdd DEF Directory
  <2> QED BY <2>1, <2>2
<1>5. \A x \in DOMAIN w : w[x] = [is |-> w[x].is, at |-> w[x].at] /\ w[x].at \in 0 .. clock
  BY <1>2, <1>3 DEF Directory
<1>6. \A x \in DOMAIN w \cap Sha256 : w[x].is = 1
  BY <1>2, <1>3 DEF Directory
<1>7. "doc" \in DOMAIN w => w["doc"].is \in 0 .. MaxVersion
  BY <1>2, <1>3 DEF Directory
<1> QED BY <1>2, <1>4, <1>5, <1>6, <1>7 DEF Directory, w

LEMMA DirectoryTouched ==
    ASSUME Directory(disk, clock), clock \in 0 .. MaxTime, NEW k \in DOMAIN disk
    PROVE  Directory(Touched(k), clock) /\ DOMAIN Touched(k) = DOMAIN disk
<1> DEFINE w == Touched(k)
<1>1. DOMAIN w = DOMAIN disk /\ w = [x \in DOMAIN w |-> w[x]]
  BY DEF Touched, Directory
<1>2. \A x \in DOMAIN w : w[x] = IF x = k THEN [is |-> disk[k].is, at |-> clock] ELSE disk[x]
  BY DEF Touched, Directory
<1> HIDE DEF w
<1>3. \A x \in DOMAIN w : w[x] = [is |-> w[x].is, at |-> w[x].at] /\ w[x].at \in 0 .. clock
  BY <1>1, <1>2 DEF Directory
<1>4. \A x \in DOMAIN w : w[x].is = disk[x].is
  BY <1>1, <1>2 DEF Directory
<1> QED BY <1>1, <1>3, <1>4 DEF Directory, w

LEMMA DirectoryWithout ==
    ASSUME Directory(disk, clock), NEW k
    PROVE  Directory(Without(k), clock) /\ DOMAIN Without(k) = DOMAIN disk \ {k}
<1> DEFINE w == Without(k)
<1>1. DOMAIN w = DOMAIN disk \ {k} /\ w = [x \in DOMAIN w |-> w[x]]
  BY DEF Without
<1>2. \A x \in DOMAIN w : w[x] = disk[x]
  BY DEF Without
<1> HIDE DEF w
<1>3. IsFiniteSet(Bytes(DOMAIN w))
  BY <1>1, BytesLess DEF Directory
<1> QED BY <1>1, <1>2, <1>3 DEF Directory, w

LEMMA DirectoryLater ==
    ASSUME Directory(disk, clock), clock \in 0 .. MaxTime, clock < MaxTime
    PROVE  Directory(disk, clock + 1)
BY DEF Directory

\* What an upstream answers is a version.
LEMMA LatestVersion ==
    ASSUME MirrorCounts
    PROVE  Latest \in 0 .. MaxVersion /\ DOMAIN upstream = 0 .. Latest
<1>1. PICK n \in 0 .. MaxVersion : DOMAIN upstream = 0 .. n
  BY DEF MirrorCounts
<1>2. Latest = n
  BY <1>1 DEF Latest, Max
<1> QED BY <1>1, <1>2

-----------------------------------------------------------------------------
(* A request's step.                                                       *)

LEMMA RequestAtRest == AtRest \in Request /\ Placed(AtRest)
BY DEF AtRest, Request, Places, Placed

LEMMA RequestGoes ==
    ASSUME MirrorInv, NEW c \in Clients
    PROVE  /\ Goes(c) \in Request /\ Placed(Goes(c)) /\ Goes(c).over = 0
           /\ Goes(c).pc \notin {"record", "scan", "evict"}
<1>1. client[c] \in Request /\ Placed(client[c])
  BY DEF MirrorInv
<1> DEFINE r == client[c]
<1> HIDE DEF r
<1>2. CASE r.then = "idle"
  <2>1. Goes(c) = AtRest
    BY <1>2 DEF Goes, r
  <2> QED BY <2>1, RequestAtRest DEF AtRest
<1>3. CASE r.then # "idle"
  <2> DEFINE g == [r EXCEPT !.pc = r.then, !.over = 0, !.plan = {}]
  <2>1. Goes(c) = g
    BY <1>3 DEF Goes, r
  <2>2. r \in Request /\ Placed(r)
    BY <1>1 DEF r
  <2>3. r.then \in {"put_meta", "link", "again", "open"}
    BY <1>3, <2>2 DEF Request
  <2>4. g \in Request /\ g.pc = r.then /\ g.over = 0 /\ g.then = r.then
    BY <2>2, <2>3 DEF Request, Places
  <2>5. Placed(g)
    BY <2>2, <2>3, <2>4 DEF Placed
  <2> QED BY <2>1, <2>3, <2>4, <2>5
<1> QED BY <1>2, <1>3

LEMMA Moves ==
    ASSUME MirrorInv, NEW c \in Clients, NEW r \in Request, Placed(r), client' = [client EXCEPT ![c] = r],
           mirror' = mirror, MirrorCounts', Directory(disk', clock'), Linked', Weighed'
    PROVE  MirrorInv'
<1>1. client' \in [Clients -> Request]
  BY DEF MirrorInv
<1>2. \A d \in Clients : client'[d] = IF d = c THEN r ELSE client[d]
  BY DEF MirrorInv
<1>3. \A d \in Clients : Placed(client'[d])
  BY <1>2 DEF MirrorInv
<1>4. \A d \in Clients : Placed(client[d])'
  BY <1>3 DEF Placed
<1> QED BY <1>1, <1>4 DEF MirrorInv, Directory

\* Somebody who is going to look answers for everything that has come.
LEMMA WeighedLater ==
    ASSUME NEW c \in Clients, client'[c].pc \in {"record", "scan"}
    PROVE  Weighed'
BY DEF Weighed

LEMMA WeightShrinks ==
    ASSUME Directory(disk, clock), DOMAIN disk' \subseteq DOMAIN disk \cup {"index"}
    PROVE  Weight \in Nat /\ Weight' \in Nat /\ Weight' <= Weight
<1>1. IsFiniteSet(Bytes(DOMAIN disk \ {"index"}))
  BY BytesLess DEF Directory
<1>2. DOMAIN disk' \ {"index"} \subseteq DOMAIN disk \ {"index"}
  OBVIOUS
<1> QED BY <1>1, <1>2, BytesLess DEF Weight

\* Nobody else's obligation suffers from a step that stores only the index.
LEMMA ClearingKept ==
    ASSUME MirrorInv, NEW d \in Clients, Clearing(d), client'[d] = client[d],
           DOMAIN disk' \subseteq DOMAIN disk \cup {"index"}
    PROVE  Clearing(d)'
<1>1. Weight \in Nat /\ Weight' \in Nat /\ Weight' <= Weight
  BY WeightShrinks DEF MirrorInv
<1>2. Planned(d)' = Planned(d)
  BY DEF Planned
<1>3. DOMAIN disk' \ {"index"} \subseteq Planned(d)
  BY DEF Clearing
<1>4. client[d].over \in Nat /\ Size["index"] \in Nat /\ Budget \in Nat
  BY DEF MirrorInv, Request, Keys
<1>5. Weight' + (IF "index" \in Planned(d) THEN Size["index"] ELSE 0) <= Budget + client[d].over
  BY <1>1, <1>4 DEF Clearing
<1> QED BY <1>2, <1>3, <1>5 DEF Clearing, On

LEMMA WeighedStill ==
    ASSUME MirrorInv, NEW c \in Clients, NEW r, client' = [client EXCEPT ![c] = r],
           client[c].pc \notin {"record", "scan", "evict"},
           DOMAIN disk' \subseteq DOMAIN disk \cup {"index"}, hurt' # 0 \/ hurt' = hurt
    PROVE  Weighed'
<1> SUFFICES ASSUME hurt' = 0
             PROVE  \/ Weight' <= Budget
                    \/ \E d \in Clients : client'[d].pc \in {"record", "scan"} \/ Clearing(d)'
  BY DEF Weighed
<1>1. hurt = 0
  OBVIOUS
<1>2. \A d \in Clients \ {c} : client'[d] = client[d]
  BY DEF MirrorInv
<1>3. CASE Weight <= Budget
  <2>1. Weight \in Nat /\ Weight' \in Nat /\ Weight' <= Weight
    BY WeightShrinks DEF MirrorInv
  <2>2. Budget \in Nat
    OBVIOUS
  <2> QED BY <1>3, <2>1, <2>2
<1>4. CASE \E d \in Clients : client[d].pc \in {"record", "scan"} \/ Clearing(d)
  <2>1. PICK d \in Clients : client[d].pc \in {"record", "scan"} \/ Clearing(d)
    BY <1>4
  <2>2. d # c
    BY <2>1 DEF Clearing, On
  <2>3. client'[d] = client[d]
    BY <1>2, <2>2
  <2> QED BY <2>1, <2>3, ClearingKept
<1> QED BY <1>1, <1>3, <1>4 DEF MirrorInv, Weighed

-----------------------------------------------------------------------------
(* The budget.                                                             *)

LEMMA TotalOfWeight ==
    ASSUME Directory(disk, clock)
    PROVE  /\ Weight \in Nat /\ Total \in Nat
           /\ Total = Weight + (IF "index" \in DOMAIN disk THEN Size["index"] ELSE 0)
<1>1. CASE "index" \in DOMAIN disk
  <2>1. /\ Weight \in Nat /\ Total = Weight + Size["index"]
    BY <1>1, BytesRemove DEF Weight, Total, Directory
  <2>2. Size["index"] \in Nat
    BY DEF Keys
  <2> QED BY <1>1, <2>1, <2>2
<1>2. CASE "index" \notin DOMAIN disk
  <2>1. DOMAIN disk \ {"index"} = DOMAIN disk
    BY <1>2
  <2>2. Weight = Total /\ Weight \in Nat
    BY <2>1, FS_CardinalityType DEF Weight, Total, Directory
  <2> QED BY <1>2, <2>2
<1> QED BY <1>1, <1>2

LEMMA WeighedScan == ASSUME MirrorInv, mirror' = mirror, NEW c \in Clients, enforce_limit(c) PROVE MirrorInv'
<1>1. client[c] \in Request /\ Placed(client[c]) /\ DOMAIN client = Clients
  BY DEF MirrorInv
<1>2. MirrorCounts' /\ Directory(disk', clock') /\ Linked' /\ hurt' = hurt /\ disk' = disk
  BY DEF MirrorInv, enforce_limit, MirrorCounts, Linked
<1>3. Weight' = Weight
  BY <1>2 DEF Weight
<1>4. /\ Weight \in Nat /\ Total \in Nat
      /\ Total = Weight + (IF "index" \in DOMAIN disk THEN Size["index"] ELSE 0)
  BY TotalOfWeight DEF MirrorInv
<1>5. Budget \in Nat /\ Size["index"] \in Nat
  BY DEF Keys
<1>6. CASE Total <= Budget
  <2>1. client' = [client EXCEPT ![c] = Goes(c)]
    BY <1>6 DEF enforce_limit
  <2>2. Weight <= Budget
    BY <1>4, <1>5, <1>6
  <2>3. Weighed'
    BY <1>3, <2>2 DEF Weighed
  <2> QED BY <1>2, <2>1, <2>3, RequestGoes, Moves
<1>7. CASE ~(Total <= Budget)
  <2> DEFINE seen == {<<disk[k].at, k>> : k \in DOMAIN disk}
             r == [client[c] EXCEPT !.pc = "evict", !.over = Total - Budget, !.plan = seen]
  <2>1. client' = [client EXCEPT ![c] = r]
    BY <1>1, <1>7 DEF enforce_limit
  <2>2. Total - Budget \in Nat /\ Total - Budget > 0
    BY <1>4, <1>5, <1>7
  <2>3. seen \in SUBSET (Nat \X Keys)
    BY DEF MirrorInv, MirrorCounts, Directory
  <2> HIDE DEF seen
  <2>4. r \in Request /\ r.pc = "evict" /\ r.over = Total - Budget /\ r.then = client[c].then /\ r.plan = seen
    BY <1>1, <2>2, <2>3 DEF Request, Places
  <2>5. Placed(r)
    BY <1>1, <2>2, <2>4 DEF Placed
  <2>6. client'[c] = r
    BY <1>1, <2>1
  <2> HIDE DEF r
  <2>7. /\ \A e, f \in client'[c].plan : e[2] = f[2] => e = f
        /\ Planned(c)' = DOMAIN disk
    <3>1. client'[c].plan = seen
      BY <2>4, <2>6
    <3>2. ASSUME NEW e \in seen PROVE e[2] \in DOMAIN disk /\ e = <<disk[e[2]].at, e[2]>>
      <4>1. PICK k \in DOMAIN disk : e = <<disk[k].at, k>>
        BY DEF seen
      <4> QED BY <4>1
    <3>3. {e[2] : e \in seen} = DOMAIN disk
      <4>1. ASSUME NEW k \in DOMAIN disk PROVE k \in {e[2] : e \in seen}
        <5>1. <<disk[k].at, k>> \in seen
          BY DEF seen
        <5>2. <<disk[k].at, k>>[2] = k
          OBVIOUS
        <5> HIDE DEF seen
        <5> QED BY <5>1, <5>2
      <4> HIDE DEF seen
      <4>2. {e[2] : e \in seen} \subseteq DOMAIN disk
        BY <3>2
      <4>3. DOMAIN disk \subseteq {e[2] : e \in seen}
        BY ONLY <4>1
      <4> QED BY <4>2, <4>3
    <3>4. \A e, f \in seen : e[2] = f[2] => e = f
      BY <3>2
    <3> QED BY <3>1, <3>3, <3>4 DEF Planned
  <2>8. Weight + (IF "index" \in DOMAIN disk THEN Size["index"] ELSE 0) <= Budget + (Total - Budget)
    BY <1>4, <1>5
  <2>9. Clearing(c)'
    BY <1>2, <1>3, <2>4, <2>6, <2>7, <2>8 DEF Clearing, On
  <2>10. Weighed'
    BY <2>9 DEF Weighed
  <2> QED BY <1>2, <2>1, <2>4, <2>5, <2>10, Moves
<1> QED BY <1>6, <1>7

LEMMA WeighedEvict == ASSUME MirrorInv, mirror' = mirror, NEW c \in Clients, evict(c) PROVE MirrorInv'
<1> DEFINE r == client[c]
<1>1. r \in Request /\ Placed(r) /\ DOMAIN client = Clients /\ r.pc = "evict" /\ r.over \in Nat /\ r.over > 0
  BY DEF MirrorInv, Request, evict, On, Placed
<1>2. PICK e \in r.plan, gone \in BOOLEAN :
        /\ gone => Here(e[2]) /\ hurt' = hurt
        /\ ~gone => IF Here(e[2]) THEN hurt < MaxMirrorFaults /\ hurt' = hurt + 1 ELSE hurt' = hurt
        /\ disk' = IF gone THEN Without(e[2]) ELSE disk
        /\ links' = IF gone /\ e[2] = "index" THEN {} ELSE links
        /\ client' = [client EXCEPT ![c] =
             IF r.over - (IF gone THEN Size[e[2]] ELSE 0) <= 0 \/ r.plan \ {e} = {} THEN Goes(c)
             ELSE [r EXCEPT !.over = r.over - (IF gone THEN Size[e[2]] ELSE 0), !.plan = r.plan \ {e}]]
  BY <1>1 DEF evict, Hurts
<1> DEFINE k == e[2]
           over == r.over - (IF gone THEN Size[k] ELSE 0)
           plan == r.plan \ {e}
           more == [r EXCEPT !.over = over, !.plan = plan]
<1>3. k \in Keys /\ Size[k] \in Nat /\ over \in Int /\ r.plan \in SUBSET (Nat \X Keys)
  BY <1>1 DEF Request
<1>4. Directory(disk', clock') /\ Linked' /\ clock' = clock /\ upstream' = upstream
  <2>1. clock' = clock /\ upstream' = upstream
    BY DEF evict
  <2>2. Directory(disk', clock)
    BY <1>2, DirectoryWithout DEF MirrorInv
  <2>3. Linked'
    BY <1>2 DEF MirrorInv, Linked
  <2> QED BY <2>1, <2>2, <2>3
<1>5. MirrorCounts'
  BY <1>2, <1>4 DEF MirrorInv, MirrorCounts
<1>6. client' = [client EXCEPT ![c] = IF over <= 0 \/ plan = {} THEN Goes(c) ELSE more]
  BY <1>2
<1>7. DOMAIN disk' = IF gone THEN DOMAIN disk \ {k} ELSE DOMAIN disk
  BY <1>2, DirectoryWithout DEF MirrorInv
<1>8. client'[c] = IF over <= 0 \/ plan = {} THEN Goes(c) ELSE more
  BY <1>1, <1>6
<1>9. Weighed'
  <2> SUFFICES ASSUME hurt' = 0
               PROVE  \/ Weight' <= Budget
                      \/ \E d \in Clients : client'[d].pc \in {"record", "scan"} \/ Clearing(d)'
    BY DEF Weighed
  <2>1. hurt = 0 /\ (Here(k) => gone)
    BY <1>2 DEF MirrorInv, MirrorCounts
  <2>2. Weight \in Nat /\ Weight' \in Nat /\ Weight' <= Weight /\ Budget \in Nat
    BY <1>7, WeightShrinks DEF MirrorInv
  <2>3. CASE Weight <= Budget
    BY <2>2, <2>3
  <2>4. CASE \E d \in Clients \ {c} : client[d].pc \in {"record", "scan"} \/ Clearing(d)
    <3>1. PICK d \in Clients \ {c} : client[d].pc \in {"record", "scan"} \/ Clearing(d)
      BY <2>4
    <3>2. client'[d] = client[d]
      BY <1>2, <1>1
    <3> QED BY <1>7, <3>1, <3>2, ClearingKept
  <2>5. CASE Clearing(c)
    <3> DEFINE keys == {f[2] : f \in plan}
    <3>1. keys = Planned(c) \ {k} /\ k \in Planned(c)
      BY <1>2, <2>5 DEF Clearing, Planned
    <3>2. DOMAIN disk' \ {"index"} \subseteq keys
      BY <1>7, <2>1, <2>5, <3>1 DEF Clearing, Here
    <3>3. Size["index"] \in Nat /\ "index" \in Keys
      BY DEF Keys
    <3>4. Weight' + (IF "index" \in keys THEN Size["index"] ELSE 0) <= Budget + over
      <4>1. Weight + (IF "index" \in Planned(c) THEN Size["index"] ELSE 0) <= Budget + r.over
        BY <2>5 DEF Clearing
      <4>2. CASE k = "index"
        <5>1. Weight' <= Budget + r.over - Size["index"]
          BY <1>1, <2>2, <3>1, <3>3, <4>1, <4>2
        <5> QED BY <1>1, <1>3, <2>2, <3>1, <3>3, <4>2, <5>1
      <4>3. CASE k # "index" /\ gone
        <5>1. k \in DOMAIN disk \ {"index"} /\ DOMAIN disk' \ {"index"} = (DOMAIN disk \ {"index"}) \ {k}
          BY <1>2, <1>7, <4>3 DEF Here
        <5>2. IsFiniteSet(Bytes(DOMAIN disk \ {"index"})) /\ DOMAIN disk \ {"index"} \subseteq Keys
          BY BytesLess DEF MirrorInv, Directory
        <5>3. Weight = Weight' + Size[k]
          BY <5>1, <5>2, BytesRemove DEF Weight
        <5>4. over = r.over - Size[k]
          BY <4>3
        <5>5. "index" \in keys <=> "index" \in Planned(c)
          BY <3>1, <4>3
        <5> HIDE DEF over, keys, k, r
        <5>6. CASE "index" \in keys
          <6>1. Weight + Size["index"] <= Budget + r.over
            BY <4>1, <5>5, <5>6
          <6>2. r.over \in Nat /\ Size[k] \in Nat /\ Size["index"] \in Nat
            BY <1>1, <1>3, <3>3
          <6>3. Weight' + Size["index"] <= Budget + over
            BY <2>2, <5>3, <5>4, <6>1, <6>2
          <6> QED BY <5>6, <6>3
        <5>7. CASE "index" \notin keys
          BY <1>1, <1>3, <2>2, <3>3, <4>1, <5>3, <5>4, <5>5, <5>7
        <5> QED BY <5>6, <5>7
      <4>4. CASE k # "index" /\ ~gone
        BY <1>1, <2>2, <3>1, <3>3, <4>1, <4>4
      <4> QED BY <4>2, <4>3, <4>4
    <3>5. CASE over <= 0
      BY <1>3, <2>2, <3>3, <3>4, <3>5
    <3>6. CASE plan = {}
      <4>1. DOMAIN disk' \ {"index"} = {}
        BY <3>2, <3>6
      <4>2. Weight' = 0
        BY <4>1, NoBytes DEF Weight
      <4> QED BY <2>2, <4>2
    <3>7. CASE ~(over <= 0 \/ plan = {})
      <4>1. client'[c] = more /\ more.pc = "evict" /\ more.over = over /\ more.plan = plan
        BY <1>1, <1>8, <3>7 DEF Request
      <4>2. Planned(c)' = keys
        BY <4>1 DEF Planned
      <4>3. \A f, g \in plan : f[2] = g[2] => f = g
        BY <2>5 DEF Clearing
      <4> HIDE DEF more, plan, over, keys
      <4> QED BY <3>2, <3>4, <4>1, <4>2, <4>3 DEF Clearing, On
    <3> QED BY <3>5, <3>6, <3>7
  <2>6. client[c].pc \notin {"record", "scan"}
    BY <1>1
  <2> QED BY <2>1, <2>3, <2>4, <2>5, <2>6 DEF MirrorInv, Weighed
<1>10. CASE over <= 0 \/ plan = {}
  <2>1. client' = [client EXCEPT ![c] = Goes(c)]
    BY <1>6, <1>10
  <2> QED BY <1>4, <1>5, <1>9, <2>1, RequestGoes, Moves
<1>11. CASE ~(over <= 0 \/ plan = {})
  <2>1. client' = [client EXCEPT ![c] = more] /\ over \in Nat /\ over > 0
    BY <1>3, <1>6, <1>11
  <2>2. /\ more \in Request /\ more.pc = "evict" /\ more.over = over /\ more.then = r.then
        /\ more.key = r.key /\ more.repo = r.repo
    BY <1>1, <1>3, <2>1 DEF Request
  <2> HIDE DEF over, more
  <2>3. Placed(more)
    BY <1>1, <2>1, <2>2 DEF Placed
  <2> QED BY <1>4, <1>5, <1>9, <2>1, <2>2, <2>3, Moves
<1> QED BY <1>10, <1>11

-----------------------------------------------------------------------------
(* The other steps.                                                        *)

Hurting == hurt' \in {hurt, hurt + 1} /\ hurt' <= MaxMirrorFaults

LEMMA Steps ==
    ASSUME MirrorInv, mirror' = mirror, clock' = clock, upstream' = upstream, NEW c \in Clients,
           NEW r \in Request, Placed(r), client' = [client EXCEPT ![c] = r],
           Linked', Directory(disk', clock), Hurting,
           \/ r.pc \in {"record", "scan"} \/ hurt' # 0
           \/ /\ client[c].pc \notin {"record", "scan", "evict"}
              /\ DOMAIN disk' \subseteq DOMAIN disk \cup {"index"}
    PROVE  MirrorInv'
<1>1. MirrorCounts' /\ Directory(disk', clock')
  BY DEF MirrorInv, MirrorCounts, Hurting
<1>2. client'[c] = r
  BY DEF MirrorInv
<1>3. Weighed'
  <2>1. CASE r.pc \in {"record", "scan"}
    BY <1>2, <2>1, WeighedLater
  <2>2. CASE hurt' # 0
    BY <2>2 DEF Weighed
  <2>3. CASE /\ client[c].pc \notin {"record", "scan", "evict"}
             /\ DOMAIN disk' \subseteq DOMAIN disk \cup {"index"} /\ hurt' = 0
    <3>1. hurt' = hurt
      BY <2>3 DEF MirrorInv, MirrorCounts, Hurting
    <3> QED BY <2>3, <3>1, WeighedStill
  <2> QED BY <2>1, <2>2, <2>3
<1> QED BY <1>1, <1>3, Moves

LEMMA LinkedStays == ASSUME MirrorInv, links' = links PROVE Linked'
BY DEF MirrorInv, Linked

LEMMA HurtStays == ASSUME MirrorInv, hurt' = hurt PROVE Hurting
BY DEF MirrorInv, MirrorCounts, Hurting

LEMMA LinksSaved ==
    ASSUME MirrorInv, NEW new, _save(new), \A l \in new : \E r \in Repos : \E d \in Contains[r] : l = <<r, d>>
    PROVE  Linked' /\ Directory(disk', clock) /\ DOMAIN disk' \subseteq DOMAIN disk \cup {"index"} /\ Hurting
<1>1. CASE links' = links \cup new /\ disk' = With("index", 0) /\ UNCHANGED hurt
  <2>1. Linked'
    BY <1>1 DEF MirrorInv, Linked
  <2>2. "index" \in Keys /\ "index" \notin Sha256 /\ clock \in 0 .. MaxTime
    BY DEF Keys, Blobs, MirrorInv, MirrorCounts
  <2>3. Directory(disk', clock) /\ DOMAIN disk' = DOMAIN disk \cup {"index"}
    BY <1>1, <2>2, DirectoryPut DEF MirrorInv
  <2> QED BY <1>1, <2>1, <2>3, HurtStays
<1>2. CASE Hurts /\ UNCHANGED <<links, disk>>
  BY <1>2, LinkedStays DEF MirrorInv, MirrorCounts, Hurts, Hurting
<1> QED BY <1>1, <1>2 DEF _save

\* A request that neither writes nor removes.
LEMMA Reads ==
    ASSUME MirrorInv, mirror' = mirror, NEW c \in Clients, NEW r \in Request, Placed(r),
           client' = [client EXCEPT ![c] = r], client[c].pc \notin {"record", "scan", "evict"},
           UNCHANGED <<links, upstream, clock, hurt>>,
           disk' = disk \/ \E k \in DOMAIN disk : disk' = Touched(k)
    PROVE  MirrorInv'
<1>1. Directory(disk', clock) /\ DOMAIN disk' = DOMAIN disk
  <2>1. clock \in 0 .. MaxTime /\ Directory(disk, clock)
    BY DEF MirrorInv, MirrorCounts
  <2> QED BY <2>1, DirectoryTouched
<1> QED BY <1>1, Steps, LinkedStays, HurtStays

LEMMA ReadSteps ==
    ASSUME MirrorInv, mirror' = mirror, NEW c \in Clients,
           \/ get_manifest(c) \/ _upstream_packument(c) \/ dists_response(c) \/ read_bytes(c)
           \/ answer(c) \/ _read_meta(c) \/ _get_document(c) \/ _fetch_metadata(c)
    PROVE  MirrorInv'
<1>1. client[c] \in Request /\ Placed(client[c]) /\ DOMAIN client = Clients /\ MirrorCounts /\ Directory(disk, clock)
  BY DEF MirrorInv
<1>2. CASE Lookup(c)
  <2>1. PICK pc \in {"read", "ask"} : client' = [client EXCEPT ![c] = [client[c] EXCEPT !.pc = pc]]
    BY <1>2 DEF Lookup, To
  <2>2. [client[c] EXCEPT !.pc = pc] \in Request /\ Placed([client[c] EXCEPT !.pc = pc])
    BY <1>1, <1>2 DEF Request, Places, Placed, Lookup, On
  <2>3. disk' = disk \/ (disk' = Touched("doc") /\ "doc" \in DOMAIN disk)
    <3>1. CASE get("doc", TTL)
      BY <1>2, <3>1 DEF Lookup, get, Here
    <3>2. CASE ~get("doc", TTL)
      BY <1>2, <3>2 DEF Lookup, get, Here
    <3> QED BY <3>1, <3>2
  <2> QED BY <1>2, <2>1, <2>2, <2>3, Reads DEF Lookup, On
<1>3. CASE read_bytes(c)
  <2> DEFINE r == IF ~Here("doc") THEN [client[c] EXCEPT !.pc = "ask"]
                  ELSE [client[c] EXCEPT !.pc = "meta", !.version = disk["doc"].is]
  <2>1. client' = [client EXCEPT ![c] = r]
    BY <1>1, <1>3 DEF read_bytes
  <2>2. Here("doc") => disk["doc"].is \in 0 .. MaxVersion
    BY <1>1 DEF Here, Directory
  <2>3. r \in Request /\ Placed(r)
    BY <1>1, <1>3, <2>2 DEF Request, Places, Placed, read_bytes, On
  <2> HIDE DEF r
  <2> QED BY <1>3, <2>1, <2>3, Reads DEF read_bytes, On
<1>4. CASE answer(c) \/ _fetch_metadata(c)
  BY <1>4, Reads, RequestAtRest DEF answer, _fetch_metadata, On, Ends
<1>5. CASE _read_meta(c)
  <2>1. disk' = disk \/ (disk' = Touched("meta") /\ "meta" \in DOMAIN disk)
    <3>1. CASE Here("meta")
      BY <1>5, <3>1 DEF _read_meta, Here
    <3>2. CASE ~Here("meta")
      BY <1>5, <3>2 DEF _read_meta, Here
    <3> QED BY <3>1, <3>2
  <2> QED BY <1>5, <2>1, Reads, RequestAtRest DEF _read_meta, On, Ends
<1>6. CASE _get_document(c)
  <2> DEFINE r == [client[c] EXCEPT !.pc = "put", !.version = Latest]
  <2>1. client' = [client EXCEPT ![c] = r] \/ client' = [client EXCEPT ![c] = AtRest]
    BY <1>1, <1>6 DEF _get_document, Ends
  <2>2. r \in Request /\ Placed(r)
    BY <1>1, <1>6, LatestVersion DEF Request, Places, Placed, _get_document, On
  <2> HIDE DEF r
  <2> QED BY <1>6, <2>1, <2>2, Reads, RequestAtRest DEF _get_document, On
<1> QED BY <1>2, <1>3, <1>4, <1>5, <1>6 DEF get_manifest, _upstream_packument, dists_response

\* A request that stores an entry and is going to look.
LEMMA Puts ==
    ASSUME MirrorInv, mirror' = mirror, NEW c \in Clients, NEW r \in Request, Placed(r),
           client' = [client EXCEPT ![c] = r], r.pc \in {"record", "scan"},
           NEW k \in Keys, NEW is, k \in Sha256 => is = 1, k = "doc" => is \in 0 .. MaxVersion,
           disk' = With(k, is), UNCHANGED <<links, upstream, clock, hurt>>
    PROVE  MirrorInv'
<1>1. Directory(disk', clock)
  BY DirectoryPut DEF MirrorInv, MirrorCounts
<1> QED BY <1>1, Steps, LinkedStays, HurtStays

LEMMA WriteSteps ==
    ASSUME MirrorInv, mirror' = mirror, NEW c \in Clients,
           put_doc(c) \/ _write_meta(c) \/ put_response(c)
    PROVE  MirrorInv'
<1>1. client[c] \in Request /\ Placed(client[c]) /\ DOMAIN client = Clients /\ MirrorCounts /\ Directory(disk, clock)
  BY DEF MirrorInv
<1> DEFINE Next(then) == [client[c] EXCEPT !.pc = "scan", !.then = then]
<1>2. ASSUME NEW k \in Keys, NEW is, NEW then, put_stream(c, k, is, then)
      PROVE  client' = [client EXCEPT ![c] = Next(then)] /\ disk' = With(k, is)
  BY <1>1, <1>2 DEF put_stream
<1>3. {"doc", "meta"} \subseteq Keys /\ Blobs \subseteq Keys /\ "doc" \notin Blobs /\ "meta" \notin Blobs /\ Sha256 \subseteq Blobs
  BY DEF Keys, Blobs
<1>4. CASE put_doc(c)
  <2>1. After[mirror] \in {"put_meta", "idle", "again"}
    BY <1>1 DEF After, MirrorCounts
  <2>2. client' = [client EXCEPT ![c] = Next(After[mirror])] /\ disk' = With("doc", client[c].version)
    BY <1>2, <1>3, <1>4 DEF put_doc
  <2>3. Next(After[mirror]) \in Request /\ Placed(Next(After[mirror])) /\ Next(After[mirror]).pc = "scan"
    BY <1>1, <1>4, <2>1 DEF Request, Places, Placed, put_doc, On
  <2>4. client[c].version \in 0 .. MaxVersion /\ UNCHANGED <<links, upstream, clock, hurt>>
    BY <1>1, <1>4 DEF Request, put_doc
  <2> HIDE DEF Next
  <2> QED BY <1>3, <2>2, <2>3, <2>4, Puts
<1>5. CASE _write_meta(c)
  <2>1. client' = [client EXCEPT ![c] = Next("link")] /\ disk' = With("meta", client[c].version)
    BY <1>2, <1>3, <1>5 DEF _write_meta
  <2>2. Next("link") \in Request /\ Placed(Next("link")) /\ Next("link").pc = "scan"
    BY <1>1, <1>5 DEF Request, Places, Placed, _write_meta, On
  <2>3. UNCHANGED <<links, upstream, clock, hurt>>
    BY <1>5 DEF _write_meta
  <2> HIDE DEF Next
  <2> QED BY <1>3, <2>1, <2>2, <2>3, Puts
<1>6. CASE put_response(c)
  <2>1. client[c].key \in Blobs /\ mirror = "npm" /\ client[c].pc = "tarball"
    BY <1>1, <1>6 DEF Placed, put_response, On
  <2>2. UNCHANGED <<links, upstream, clock, hurt>>
    BY <1>6 DEF put_response
  <2>3. CASE put_stream(c, client[c].key, 1, "open")
    <3>1. client' = [client EXCEPT ![c] = Next("open")] /\ disk' = With(client[c].key, 1)
      BY <1>2, <1>3, <2>1, <2>3
    <3>2. Next("open") \in Request /\ Placed(Next("open")) /\ Next("open").pc = "scan"
      BY <1>1, <2>1 DEF Request, Places, Placed
    <3> HIDE DEF Next
    <3> QED BY <1>3, <2>1, <2>2, <3>1, <3>2, Puts
  <2>4. CASE Ends(c) /\ UNCHANGED disk
    BY <2>1, <2>2, <2>4, Reads, RequestAtRest DEF Ends
  <2> QED BY <1>6, <2>3, <2>4 DEF put_response
<1> QED BY <1>4, <1>5, <1>6

LEMMA LinkSteps ==
    ASSUME MirrorInv, mirror' = mirror, NEW c \in Clients, record_manifest(c) \/ _stream_records(c)
    PROVE  MirrorInv'
<1>1. client[c] \in Request /\ Placed(client[c]) /\ DOMAIN client = Clients /\ MirrorCounts /\ Directory(disk, clock)
  BY DEF MirrorInv
<1>2. CASE record_manifest(c)
  <2> DEFINE new == {<<Owner, d>> : d \in BlobOf[client[c].version]}
  <2>1. BlobOf[client[c].version] \subseteq Contains[Owner] /\ Owner \in Repos
    BY <1>1 DEF Request
  <2>2. \A l \in new : \E r \in Repos : \E d \in Contains[r] : l = <<r, d>>
    BY <2>1
  <2>3. _save(new)
    BY <1>2 DEF record_manifest
  <2> HIDE DEF new
  <2>4. Linked' /\ Directory(disk', clock) /\ DOMAIN disk' \subseteq DOMAIN disk \cup {"index"} /\ Hurting
    BY <2>2, <2>3, LinksSaved
  <2> QED BY <1>2, <2>4, Steps, RequestAtRest DEF record_manifest, Ends, On
<1>3. CASE _stream_records(c)
  <2> DEFINE r == [client[c] EXCEPT !.pc = "scan", !.then = "idle"]
             new == {<<client[c].repo, client[c].key>>}
  <2>1. r \in Request /\ Placed(r) /\ r.pc = "scan" /\ client' = [client EXCEPT ![c] = r]
    BY <1>1, <1>3 DEF Request, Places, Placed, _stream_records, On
  <2>2. client[c].repo \in Repos /\ client[c].key \in Contains[client[c].repo]
    BY <1>1, <1>3 DEF Request, Placed, _stream_records, On
  <2>3. \A l \in new : \E o \in Repos : \E d \in Contains[o] : l = <<o, d>>
    BY <2>2
  <2>4. Linked' /\ Directory(disk', clock) /\ Hurting
    <3>1. CASE UNCHANGED <<links, disk, hurt>>
      BY <1>1, <3>1, LinkedStays, HurtStays
    <3>2. CASE _save(new)
      BY <2>3, <3>2, LinksSaved
    <3> QED BY <1>3, <3>1, <3>2 DEF _stream_records, record_blob
  <2>5. upstream' = upstream /\ clock' = clock
    BY <1>3 DEF _stream_records
  <2> HIDE DEF r
  <2> QED BY <2>1, <2>4, <2>5, Steps
<1> QED BY <1>2, <1>3

LEMMA BlobSteps ==
    ASSUME MirrorInv, mirror' = mirror, NEW c \in Clients,
           open_blob(c) \/ open_blob_linked(c) \/ upstream_tarball(c) \/ _cached_blob_response(c)
    PROVE  MirrorInv'
<1>1. client[c] \in Request /\ Placed(client[c]) /\ DOMAIN client = Clients /\ MirrorCounts
  BY DEF MirrorInv
<1>2. CASE open_blob(c)
  <2>1. PICK o \in Repos, d \in Blobs :
          /\ disk' = IF Here(d) THEN Touched(d) ELSE disk
          /\ client' = [client EXCEPT ![c] = [client[c] EXCEPT !.repo = o, !.key = d,
                                              !.pc = IF Here(d) THEN "linked" ELSE "fetch"]]
    BY <1>1, <1>2 DEF open_blob
  <2> DEFINE r == [client[c] EXCEPT !.repo = o, !.key = d, !.pc = IF Here(d) THEN "linked" ELSE "fetch"]
  <2>2. client' = [client EXCEPT ![c] = r]
    BY <2>1
  <2>3. r \in Request
    BY <1>1 DEF Request, Places
  <2>4. r.pc \in {"linked", "fetch"} /\ r.key = d /\ r.over = client[c].over /\ r.then = client[c].then
    BY <1>1 DEF Request
  <2>5. Placed(r)
    BY <1>1, <1>2, <2>4 DEF Placed, open_blob, On
  <2>6. disk' = disk \/ \E k \in DOMAIN disk : disk' = Touched(k)
    <3>1. CASE Here(d)
      BY <2>1, <3>1 DEF Here
    <3>2. CASE ~Here(d)
      BY <2>1, <3>2
    <3> QED BY <3>1, <3>2
  <2>7. client[c].pc = "idle" /\ UNCHANGED <<links, upstream, clock, hurt>>
    BY <1>2 DEF open_blob, On
  <2> HIDE DEF r
  <2> QED BY <2>2, <2>3, <2>5, <2>6, <2>7, Reads
<1>3. CASE open_blob_linked(c)
  <2> DEFINE pc == IF has_blob(client[c].repo, client[c].key) THEN "open" ELSE "fetch"
             r == [client[c] EXCEPT !.pc = pc]
  <2>1. client' = [client EXCEPT ![c] = r] /\ disk' = disk
    BY <1>1, <1>3 DEF open_blob_linked, To
  <2>2. r \in Request /\ r.pc = pc /\ r.key = client[c].key /\ r.repo = client[c].repo
        /\ r.over = client[c].over /\ r.then = client[c].then
    BY <1>1 DEF Request, Places
  <2>3. pc = "open" => client[c].key \in Contains[client[c].repo]
    BY DEF has_blob, MirrorInv, Linked
  <2>4. client[c].pc = "linked" /\ UNCHANGED <<links, upstream, clock, hurt>>
    BY <1>3 DEF open_blob_linked, On
  <2>5. Placed(r)
    BY <1>1, <2>2, <2>3, <2>4 DEF Placed
  <2> HIDE DEF r
  <2> QED BY <2>1, <2>2, <2>4, <2>5, Reads
<1>4. CASE upstream_tarball(c)
  <2>1. PICK d \in Blobs :
          /\ disk' = IF Here(d) THEN Touched(d) ELSE disk
          /\ client' = [client EXCEPT ![c] = [client[c] EXCEPT !.key = d,
                                              !.pc = IF Here(d) THEN "open" ELSE "tarball"]]
    BY <1>1, <1>4 DEF upstream_tarball
  <2> DEFINE r == [client[c] EXCEPT !.key = d, !.pc = IF Here(d) THEN "open" ELSE "tarball"]
  <2>2. client' = [client EXCEPT ![c] = r]
    BY <2>1
  <2>3. r \in Request
    BY <1>1 DEF Request, Places
  <2>4. r.pc \in {"open", "tarball"} /\ r.key = d /\ r.over = client[c].over /\ r.then = client[c].then
    BY <1>1 DEF Request
  <2>5. Placed(r)
    BY <1>1, <1>4, <2>4 DEF Placed, upstream_tarball, On
  <2>6. disk' = disk \/ \E k \in DOMAIN disk : disk' = Touched(k)
    <3>1. CASE Here(d)
      BY <2>1, <3>1 DEF Here
    <3>2. CASE ~Here(d)
      BY <2>1, <3>2
    <3> QED BY <3>1, <3>2
  <2>7. client[c].pc = "idle" /\ UNCHANGED <<links, upstream, clock, hurt>>
    BY <1>4 DEF upstream_tarball, On
  <2> HIDE DEF r
  <2> QED BY <2>2, <2>3, <2>5, <2>6, <2>7, Reads
<1>5. CASE _cached_blob_response(c)
  BY <1>5, Reads, RequestAtRest DEF _cached_blob_response, On, Ends
<1> QED BY <1>2, <1>3, <1>4, <1>5

LEMMA StreamStep ==
    ASSUME MirrorInv, mirror' = mirror, NEW c \in Clients, _stream_and_cache(c)
    PROVE  MirrorInv'
<1>1. client[c] \in Request /\ Placed(client[c]) /\ DOMAIN client = Clients /\ client[c].pc = "fetch"
  BY DEF MirrorInv, _stream_and_cache, On
<1> DEFINE d == client[c].key
           r == [client[c] EXCEPT !.pc = "record"]
<1>2. d \in Blobs /\ UNCHANGED <<links, upstream, clock, hurt>>
  BY <1>1 DEF Placed, _stream_and_cache
<1>3. CASE Ends(c) /\ UNCHANGED disk
  BY <1>1, <1>2, <1>3, Reads, RequestAtRest DEF Ends
<1>4. ASSUME d \in Contains[client[c].repo], NEW bytes \in {"good", "bad", "short"}, Accepted(d, bytes),
             disk' = With(d, IF bytes = "good" THEN 1 ELSE 0), To(c, "record")
      PROVE  MirrorInv'
  <2>1. client' = [client EXCEPT ![c] = r]
    BY <1>1, <1>4 DEF To
  <2>2. r \in Request /\ r.pc = "record" /\ r.key = d /\ r.repo = client[c].repo /\ r.over = client[c].over
        /\ r.then = client[c].then
    BY <1>1 DEF Request, Places
  <2>3. Placed(r)
    BY <1>1, <1>2, <1>4, <2>2 DEF Placed
  <2>4. d \in Sha256 => (IF bytes = "good" THEN 1 ELSE 0) = 1
    BY <1>4 DEF Accepted
  <2>5. d \in Keys /\ d # "doc"
    BY <1>2 DEF Keys
  <2> HIDE DEF r, d
  <2> QED BY <1>2, <1>4, <2>1, <2>2, <2>3, <2>4, <2>5, Puts
<1> QED BY <1>3, <1>4 DEF _stream_and_cache

LEMMA WorldSteps ==
    ASSUME MirrorInv, mirror' = mirror, (\E c \in Clients : WorkerDies(c)) \/ TagMoves \/ Tick
    PROVE  MirrorInv'
<1>1. ASSUME NEW c \in Clients, WorkerDies(c) PROVE MirrorInv'
  <2>1. hurt' # 0 /\ Hurting
    BY <1>1 DEF WorkerDies, Hurts, Hurting, MirrorInv, MirrorCounts
  <2>2. Directory(disk', clock) /\ links' = links /\ clock' = clock /\ upstream' = upstream
    BY <1>1 DEF WorkerDies, MirrorInv
  <2>3. client' = [client EXCEPT ![c] = AtRest]
    BY <1>1 DEF WorkerDies, Ends
  <2> QED BY <2>1, <2>2, <2>3, Steps, LinkedStays, RequestAtRest
<1>2. CASE TagMoves
  <2>1. DOMAIN upstream' = 0 .. Latest + 1 /\ Latest + 1 \in 0 .. MaxVersion
    BY <1>2, LatestVersion DEF TagMoves, MirrorInv
  <2>2. UNCHANGED <<mirror, disk, links, clock, client, hurt>>
    BY <1>2 DEF TagMoves
  <2>3. MirrorCounts'
    BY <2>1, <2>2 DEF MirrorInv, MirrorCounts
  <2>4. Weight' = Weight /\ \A c \in Clients : Clearing(c)' = Clearing(c) /\ Placed(client[c])' = Placed(client[c])
    BY <2>2 DEF Weight, Clearing, Planned, On, Placed
  <2>5. Weighed'
    BY <2>2, <2>4 DEF MirrorInv, Weighed
  <2> QED BY <2>2, <2>3, <2>4, <2>5 DEF MirrorInv, Linked, Directory
<1>3. CASE Tick
  <2>1. clock' = clock + 1 /\ clock' \in 0 .. MaxTime
    BY <1>3 DEF Tick, MirrorInv, MirrorCounts
  <2>2. UNCHANGED <<mirror, disk, links, upstream, client, hurt>>
    BY <1>3 DEF Tick
  <2>3. Directory(disk', clock')
    BY <1>3, <2>1, <2>2, DirectoryLater DEF Tick, MirrorInv, MirrorCounts
  <2>4. Weight' = Weight /\ \A c \in Clients : Clearing(c)' = Clearing(c) /\ Placed(client[c])' = Placed(client[c])
    BY <2>2 DEF Weight, Clearing, Planned, On, Placed
  <2>5. Weighed'
    BY <2>2, <2>4 DEF MirrorInv, Weighed
  <2>6. MirrorCounts'
    BY <2>1, <2>2 DEF MirrorInv, MirrorCounts
  <2> QED BY <2>2, <2>3, <2>4, <2>5, <2>6 DEF MirrorInv, Linked
<1> QED BY <1>1, <1>2, <1>3

LEMMA MirrorStep == ASSUME MirrorInv, [MirrorNext]_mirrorVars PROVE MirrorInv'
<1>1. CASE UNCHANGED mirrorVars
  <2>1. UNCHANGED <<mirror, disk, links, upstream, clock, client, hurt>>
    BY <1>1 DEF mirrorVars
  <2>2. Weight' = Weight /\ \A c \in Clients : Clearing(c)' = Clearing(c) /\ Placed(client[c])' = Placed(client[c])
    BY <2>1 DEF Weight, Clearing, Planned, On, Placed
  <2>3. Weighed'
    BY <2>1, <2>2 DEF MirrorInv, Weighed
  <2> QED BY <2>1, <2>2, <2>3 DEF MirrorInv, Linked, Directory, MirrorCounts
<1>2. CASE MirrorNext
  <2>1. mirror' = mirror
    BY <1>2 DEF MirrorNext
  <2>2. ASSUME NEW c \in Clients, enforce_limit(c) \/ evict(c)
        PROVE  MirrorInv'
    BY <2>1, <2>2, WeighedScan, WeighedEvict
  <2> QED BY <1>2, <2>1, <2>2, ReadSteps, WriteSteps, LinkSteps, BlobSteps, StreamStep, WorldSteps DEF MirrorNext
<1> QED BY <1>1, <1>2

\* What the container mirror serves from its cache is whole and belongs to the
\* repository, and a cache nobody is using is within its budget, for any number
\* of requests, entries and sizes, however downloads, evictions and answers
\* interleave (_stream_and_cache, open_blob, DiskCache.enforce_limit).
THEOREM MirrorsHold == MirrorSpec => []MirrorTrue
<1>1. MirrorInit => MirrorInv
  <2> SUFFICES ASSUME MirrorInit PROVE MirrorInv
    OBVIOUS
  <2>1. MirrorCounts
    <3>1. 0 \in 0 .. MaxVersion /\ DOMAIN upstream = 0 .. 0
      BY DEF MirrorInit
    <3> QED BY <3>1 DEF MirrorInit, MirrorCounts
  <2>2. disk = [k \in {} |-> disk[k]] /\ DOMAIN disk = {}
    BY DEF MirrorInit
  <2>3. Directory(disk, clock)
    BY <2>2, NoBytes, FS_EmptySet DEF Directory
  <2>4. Weight = 0 /\ Budget \in Nat
    BY <2>2, NoBytes DEF Weight
  <2>5. Weighed
    BY <2>4 DEF Weighed
  <2> QED BY <2>1, <2>3, <2>5, RequestAtRest DEF MirrorInit, MirrorInv, Linked
<1>2. MirrorInv => MirrorTrue
  <2> SUFFICES ASSUME MirrorInv PROVE MirrorTrue
    OBVIOUS
  <2>1. MirrorTypeOK
    BY DEF MirrorInv, MirrorCounts, Directory, Request, Placed, MirrorTypeOK, On
  <2>2. BlobsWhole
    BY DEF MirrorInv, Directory, BlobsWhole, Here
  <2>3. LinkedToRepo
    BY DEF MirrorInv, Linked, Placed, LinkedToRepo, On
  <2>4. BudgetKept
    <3> SUFFICES ASSUME hurt = 0, \A c \in Clients : On(c, "idle")
                 PROVE  Total <= Budget + Size["index"]
      BY DEF BudgetKept
    <3>1. Weight <= Budget
      BY DEF MirrorInv, Weighed, Clearing, On
    <3>2. Size["index"] \in Nat /\ Budget \in Nat
      BY DEF Keys
    <3>3. /\ Weight \in Nat /\ Total \in Nat
          /\ Total = Weight + (IF "index" \in DOMAIN disk THEN Size["index"] ELSE 0)
      BY TotalOfWeight DEF MirrorInv
    <3> QED BY <3>1, <3>2, <3>3
  <2> QED BY <2>1, <2>2, <2>3, <2>4 DEF MirrorTrue
<1> QED BY <1>1, <1>2, MirrorStep, PTL DEF MirrorSpec
=============================================================================
