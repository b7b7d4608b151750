------------------------ MODULE AuditPipelineProofs ------------------------
(***************************************************************************)
(* Theorems about AuditPipeline for any events, outages, crashes and       *)
(* restarts.  The pipeline drives the store only as AuditStore allows, so  *)
(* the lemmas of AuditStoreProofs hold within the life of a process; and   *)
(* what one process leaves in the topic, in Redis and in the committed     *)
(* offset never makes the next one show, skip or claim what is not so.     *)
(***************************************************************************)
EXTENDS AuditPipeline, FiniteSetTheorems, TLAPS

\* What the events say plays no part here, nor do the requests that read them.
Bodies == [id \in Ids |-> [ts |-> 0, key |-> 0, actor |-> "none", action |-> "none",
                          type |-> "none", cid |-> "none"]]

StoreProofs == INSTANCE AuditStoreProofs
                 WITH SeenFactor <- 3, MaxArrivals <- Cardinality(Ids) + MaxBoots,
                      BodyOf <- Bodies, NoCid <- "none", Filters <- {}, PageCap <- 2000, RecentCap <- 25

\* What TypeOK leaves out; and no event is of a process to come.
Counters == /\ key \in Nat /\ boots \in Nat /\ redisUp \in BOOLEAN
            /\ bootOf \in [Events -> Nat]
            /\ \A e \in Events : bootOf[e] <= boots

\* The store of the process, full or empty, is as AuditStore promises.
StoreOK == StoreProofs!IInv /\ born \subseteq Ids /\ seen \subseteq born

\* An id that was drawn, or is in the topic, belongs to an event that began.
Begun == /\ \A e \in Events : e \in born => stage[e] # "unborn"
         /\ \A o \in DOMAIN topic : stage[topic[o].id] # "unborn"

\* What this process emitted has been in its store.
Mirrored ==
    proc # "down" =>
      \A e \in Events : stage[e] # "unborn" /\ bootOf[e] = boots =>
        e \in {arrivals[i] : i \in DOMAIN arrivals}

\* The group has read up to n.
ReadTo(n) == \A o \in 1 .. n - 1 : base <= o => o \in read

Progress == ReadTo(committed) /\ (consumer = "running" => ReadTo(position))

\* A process that has not started its consumer neither reads nor claims to.
Quiet == proc \in {"boot", "produce", "connect"} =>
           ~connected /\ task = "none" /\ consumer = "none"

IInv == /\ TypeOK /\ Counters /\ StoreOK /\ Begun /\ Mirrored
        /\ ShownAsSignedIsSigned /\ Progress /\ Quiet /\ ConnectedMeansReading

-----------------------------------------------------------------------------
\* The pipeline's store and the one the lemmas are about are the same.
LEMMA SameStore ==
    /\ Store!Record = StoreProofs!Record
    /\ \A rec : Store!Add(rec) <=> StoreProofs!Add(rec)
    /\ \A rec : Store!Arrive(rec) <=> StoreProofs!Arrive(rec)
  BY DEF Store!Cardinality, StoreProofs!Cardinality, Store!Record, StoreProofs!Record,
     Store!Sources, StoreProofs!Sources, Store!Add, StoreProofs!Add, Store!Arrive,
     StoreProofs!Arrive, Store!Fresh, StoreProofs!Fresh, Store!Appended,
     StoreProofs!Appended, Store!Upgraded, StoreProofs!Upgraded, Store!Remembered,
     StoreProofs!Remembered, Store!IdsOf, StoreProofs!IdsOf

\* The instance of AuditStore meets its assumption.
LEMMA StoreAssumed ==
    /\ MaxLen \in Nat \ {0} /\ 3 \in Nat \ {0}
    /\ Cardinality(Ids) + MaxBoots \in Nat
    /\ \A id \in Ids : /\ Bodies[id].ts \in Nat /\ Bodies[id].key \in Nat
                       /\ Bodies[id].ts \in {0, Bodies[id].key}
                       /\ Bodies[id].cid # "any"
    /\ 2000 \in Nat \ {0} /\ 25 \in Nat
<1>1. IsFiniteSet(Ids)
  BY PipelineAssumption, FS_Union DEF Ids
<1>2. \A id \in Ids : Bodies[id].ts = 0 /\ Bodies[id].key = 0 /\ Bodies[id].cid = "none"
  BY DEF Bodies
<1> QED  BY <1>1, <1>2, PipelineAssumption, FS_CardinalityType

\* AuditEventStore.add within the pipeline.
LEMMA AddKeeps ==
    ASSUME StoreOK, NEW rec \in Store!Record, Store!Add(rec), Store!Arrive(rec),
           born' = born \cup {rec.id}
    PROVE  /\ StoreOK' /\ events' \in Seq(Store!Record)
           /\ \A i \in DOMAIN events' :
                events'[i] = rec \/ \E j \in DOMAIN events : events'[i] = events[j]
<1>1. rec \in StoreProofs!Record /\ rec.id \in Ids /\ StoreProofs!Add(rec) /\ StoreProofs!Arrive(rec)
  BY SameStore DEF StoreProofs!Record
<1>2. StoreProofs!IInv
  BY DEF StoreOK
<1>3. /\ events' \in Seq(StoreProofs!Record) /\ Len(events') <= MaxLen
      /\ seen' \subseteq Ids /\ StoreProofs!IsFiniteSet(seen')
      /\ StoreProofs!OneRecordPerEvent' /\ StoreProofs!SeenCoversBuffer'
  BY <1>1, <1>2, StoreAssumed, StoreProofs!AddKeeps
<1>4. /\ \A i \in DOMAIN events' :
           events'[i] = rec \/ \E j \in DOMAIN events : events'[i] = events[j]
      /\ seen' \subseteq seen \cup {rec.id}
  BY <1>1, <1>2, StoreAssumed, StoreProofs!AddShows
<1>5. arrivals' \in Seq(Ids)
  BY <1>1, <1>2 DEF StoreProofs!Arrive, StoreProofs!IInv, StoreProofs!TypeOK
<1>6. born' \subseteq Ids /\ seen' \subseteq born'
  BY <1>1, <1>4 DEF StoreOK
<1>7. StoreProofs!IInv'
  BY <1>3, <1>5, <1>6 DEF StoreProofs!IInv, StoreProofs!TypeOK
<1> QED  BY <1>3, <1>4, <1>6, <1>7, SameStore DEF StoreOK

LEMMA StoreKept ==
    ASSUME StoreOK, UNCHANGED storeVars
    PROVE  StoreOK'
  BY DEF StoreOK, storeVars, StoreProofs!IInv, StoreProofs!TypeOK,
     StoreProofs!OneRecordPerEvent, StoreProofs!SeenCoversBuffer, StoreProofs!IdsOf

\* A store that is empty, at first or in a process that begins.
LEMMA EmptyStore ==
    /\ StoreProofs!IdsOf(<<>>) = {} /\ StoreProofs!IsFiniteSet({})
    /\ StoreProofs!Cardinality({}) <= 3 * MaxLen
<1>1. IsFiniteSet({}) /\ Cardinality({}) = 0
  BY FS_EmptySet
<1>2. StoreProofs!IsFiniteSet({}) /\ StoreProofs!Cardinality({}) = 0
  BY <1>1 DEF StoreProofs!IsFiniteSet, IsFiniteSet, StoreProofs!Cardinality, Cardinality
<1> QED  BY <1>2, StoreAssumed DEF StoreProofs!IdsOf

\* The topic is of events.
LEMMA TopicIds ==
    ASSUME TypeOK
    PROVE  \A o \in DOMAIN topic : topic[o] \in Message /\ topic[o].id \in Events
<1>1. \A o \in DOMAIN topic : topic[o] \in Message
  BY DEF TypeOK
<1> QED  BY <1>1 DEF Message

\* A step that leaves the store and the topic alone, and in which no event
\* begins.
LEMMA StoreUntouched ==
    ASSUME IInv, UNCHANGED <<key, boots, storeVars, bootOf, topic>>,
           \A e \in Events : stage'[e] = "unborn" <=> stage[e] = "unborn",
           proc = "down" => proc' = "down",
           redisUp' = redisUp \/ redisUp' = ~redisUp
    PROVE  Counters' /\ StoreOK' /\ Begun' /\ Mirrored' /\ ShownAsSignedIsSigned'
<1>1. StoreOK'
  BY StoreKept DEF IInv
<1>2. Counters'
  BY DEF IInv, Counters
<1>3. Begun'
  <2>1. \A o \in DOMAIN topic : topic[o].id \in Events
    BY TopicIds DEF IInv
  <2> QED  BY <2>1 DEF IInv, Begun, storeVars
<1>4. Mirrored'
  BY DEF IInv, Mirrored, storeVars
<1>5. ShownAsSignedIsSigned'
  BY DEF IInv, ShownAsSignedIsSigned, storeVars
<1> QED  BY <1>1, <1>2, <1>3, <1>4, <1>5

-----------------------------------------------------------------------------
\* A process that begins has a number no event knows, an empty store, and
\* nothing that reads.
LEMMA BootKeeps ==
    ASSUME IInv, Boot
    PROVE  IInv'
<1>1. /\ boots' = boots + 1 /\ key' \in Nat /\ boots \in Nat
      /\ UNCHANGED <<redisUp, stage, bootOf, topic, born>>
  BY DEF Boot, IInv, Counters, emitVars
<1>2. events' = <<>> /\ seen' = {} /\ arrivals' = <<>> /\ born' \subseteq Ids
  BY <1>1 DEF Boot, IInv, StoreOK
<1>3. StoreOK'
  BY <1>2, EmptyStore, StoreAssumed DEF StoreOK, StoreProofs!IInv, StoreProofs!TypeOK,
     StoreProofs!OneRecordPerEvent, StoreProofs!SeenCoversBuffer
<1>4. Counters' /\ \A e \in Events : bootOf'[e] # boots'
  BY <1>1 DEF IInv, Counters
<1>5. TypeOK'
  <2>1. events' \in Seq(Store!Record)
    BY <1>2
  <2> QED  BY <1>1, <2>1 DEF Boot, IInv, TypeOK
<1>6. Begun'
  BY <1>1 DEF IInv, Begun
<1>7. Mirrored' /\ ShownAsSignedIsSigned'
  BY <1>2, <1>4 DEF Mirrored, ShownAsSignedIsSigned
<1>8. Progress'
  BY DEF Boot, IInv, Progress, ReadTo
<1>9. Quiet' /\ ConnectedMeansReading'
  BY DEF Boot, Quiet, ConnectedMeansReading
<1> QED  BY <1>3, <1>4, <1>5, <1>6, <1>7, <1>8, <1>9 DEF IInv

\* An event that begins is news to the store.
LEMMA EmitKeeps ==
    ASSUME IInv, NEW e \in Events, Emit(e)
    PROVE  IInv' /\ Store!AddLocal(e)
<1>0. /\ proc = "up" /\ stage[e] = "unborn" /\ stage' = [stage EXCEPT ![e] = "mirrored"]
      /\ bootOf' = [bootOf EXCEPT ![e] = boots] /\ born' = born \cup {e}
      /\ Store!Add(Local(e)) /\ Store!Arrive(Local(e))
      /\ UNCHANGED <<redisUp, proc, key, boots, topic, producer, consumer, task, indexer, connected,
                     index, position, base, read, committed>>
  BY DEF Emit, outerVars, consumerVars
<1>1. e \notin born /\ e \notin seen
  BY <1>0 DEF IInv, Begun, StoreOK
<1>2. Local(e) \in Store!Record /\ Local(e).id = e /\ Local(e).signed = "none"
  BY DEF Local, Store!Record, Store!Sources, Ids
<1>3. /\ StoreOK' /\ events' \in Seq(Store!Record)
      /\ \A i \in DOMAIN events' :
           events'[i] = Local(e) \/ \E j \in DOMAIN events : events'[i] = events[j]
  BY <1>0, <1>2, AddKeeps DEF IInv
<1>4. arrivals \in Seq(Ids) /\ arrivals' = Append(arrivals, e)
  BY <1>0, <1>1, <1>2 DEF Store!Arrive, Store!Fresh, IInv, StoreOK, StoreProofs!IInv,
     StoreProofs!TypeOK
<1>5. {arrivals'[i] : i \in DOMAIN arrivals'} = {arrivals[i] : i \in DOMAIN arrivals} \cup {e}
  <2>1. e \in Ids
    BY DEF Ids
  <2>2. /\ DOMAIN arrivals = 1 .. Len(arrivals) /\ Len(arrivals) \in Nat
        /\ DOMAIN arrivals' = 1 .. Len(arrivals) + 1
        /\ \A i \in 1 .. Len(arrivals) : arrivals'[i] = arrivals[i]
        /\ arrivals'[Len(arrivals) + 1] = e
    BY <1>4, <2>1
  <2>3. DOMAIN arrivals' = DOMAIN arrivals \cup {Len(arrivals) + 1}
    BY <2>2
  <2> QED  BY <2>2, <2>3
<1>6. TypeOK'
  BY <1>0, <1>3 DEF IInv, TypeOK, Stages
<1>7. Counters'
  BY <1>0 DEF IInv, Counters
<1>8. Begun'
  <2>1. \A f \in Events : stage[f] # "unborn" => stage'[f] # "unborn"
    BY <1>0 DEF IInv, TypeOK
  <2>2. stage'[e] # "unborn"
    BY <1>0 DEF IInv, TypeOK
  <2>3. \A o \in DOMAIN topic : topic[o].id \in Events
    BY TopicIds DEF IInv
  <2> QED  BY <1>0, <2>1, <2>2, <2>3 DEF IInv, Begun
<1>9. Mirrored'
  <2> SUFFICES ASSUME NEW f \in Events, stage'[f] # "unborn", bootOf'[f] = boots, f # e
               PROVE  f \in {arrivals[i] : i \in DOMAIN arrivals}
    BY <1>0, <1>5 DEF Mirrored
  <2>1. stage[f] # "unborn" /\ bootOf[f] = boots
    BY <1>0 DEF IInv, TypeOK, Counters
  <2> QED  BY <1>0, <2>1 DEF IInv, Mirrored
<1>10. ShownAsSignedIsSigned'
  BY <1>0, <1>2, <1>3 DEF IInv, ShownAsSignedIsSigned
<1>11. Progress' /\ Quiet' /\ ConnectedMeansReading'
  BY <1>0 DEF IInv, Progress, ReadTo, Quiet, ConnectedMeansReading
<1>12. Store!AddLocal(e)
  BY <1>0, <1>1 DEF Store!AddLocal, Local
<1> QED  BY <1>3, <1>6, <1>7, <1>8, <1>9, <1>10, <1>11, <1>12 DEF IInv

\* A message that is read and stored in one step: signed by this process's key
\* if it says so, of an event that began if it has an event's id.
LEMMA IngestKeeps ==
    ASSUME IInv, NEW rec \in Store!Record, Ingest(rec),
           rec.id \in Events => stage[rec.id] # "unborn",
           rec.signed = "valid" => \E o \in DOMAIN topic : topic[o] = [id |-> rec.id, key |-> key]
    PROVE  IInv'
<1>0. /\ proc = "up" /\ task = "getone"
      /\ Store!Add(rec) /\ Store!Arrive(rec) /\ born' = born \cup {rec.id}
      /\ position' = position + 1 /\ read' = read \cup {position}
      /\ UNCHANGED <<redisUp, proc, key, boots, stage, bootOf, topic, producer, consumer, task, indexer,
                     connected, index, base, committed>>
  BY DEF Ingest, outerVars, emitVars
<1>1. /\ StoreOK' /\ events' \in Seq(Store!Record)
      /\ \A i \in DOMAIN events' :
           events'[i] = rec \/ \E j \in DOMAIN events : events'[i] = events[j]
  BY <1>0, AddKeeps DEF IInv
<1>2. TypeOK'
  BY <1>0, <1>1 DEF IInv, TypeOK
<1>3. Counters' /\ Begun'
  BY <1>0 DEF IInv, Counters, Begun
<1>4. Mirrored'
  <2>1. arrivals \in Seq(Ids) /\ rec.id \in Ids
    BY DEF IInv, StoreOK, StoreProofs!IInv, StoreProofs!TypeOK, Store!Record
  <2>2. arrivals' = arrivals \/ arrivals' = Append(arrivals, rec.id)
    BY <1>0 DEF Store!Arrive
  <2>3. \A i \in DOMAIN arrivals : i \in DOMAIN arrivals' /\ arrivals'[i] = arrivals[i]
    BY <2>1, <2>2
  <2> QED  BY <1>0, <2>3 DEF IInv, Mirrored
<1>5. ShownAsSignedIsSigned'
  BY <1>0, <1>1 DEF IInv, ShownAsSignedIsSigned
<1>6. Progress'
  <2>1. position \in Nat \ {0} /\ committed \in Nat
    BY DEF IInv, TypeOK
  <2>2. ReadTo(committed)'
    BY <1>0 DEF IInv, Progress, ReadTo
  <2>3. consumer = "running" => ReadTo(position)'
    BY <1>0, <2>1 DEF IInv, Progress, ReadTo
  <2> QED  BY <1>0, <2>2, <2>3 DEF Progress
<1>7. Quiet' /\ ConnectedMeansReading'
  BY <1>0 DEF IInv, Quiet, ConnectedMeansReading
<1> QED  BY <1>1, <1>2, <1>3, <1>4, <1>5, <1>6, <1>7 DEF IInv

\* The record of a message: its event's, or a stray's.
LEMMA ConsumedRecord ==
    ASSUME IInv, position <= Len(topic)
    PROVE  /\ position \in DOMAIN topic /\ topic[position] \in Message
           /\ [id |-> topic[position].id, source |-> "kafka", signed |-> "valid"] \in Store!Record
           /\ stage[topic[position].id] # "unborn"
           /\ \A stray \in Strays :
                [id |-> stray, source |-> "kafka", signed |-> "invalid"] \in Store!Record
<1>1. position \in DOMAIN topic /\ topic[position] \in Message
  BY DEF IInv, TypeOK
<1>2. stage[topic[position].id] # "unborn"
  BY <1>1 DEF IInv, Begun
<1> QED  BY <1>1, <1>2 DEF Message, Store!Record, Store!Sources, Ids

LEMMA ConsumeKeeps ==
    ASSUME IInv, ConsumeSigned \/ \E stray \in Strays : ConsumeUnparsed(stray)
    PROVE  /\ IInv'
           /\ \E id \in Ids, signed \in {"valid", "invalid"} : Store!AddKafka(id, signed)
<1>0. position <= Len(topic)
  BY DEF ConsumeSigned, ConsumeUnparsed
<1>1. CASE ConsumeSigned
  <2> DEFINE m   == topic[position]
             rec == [id |-> m.id, source |-> "kafka", signed |-> "valid"]
  <2>1. /\ rec \in Store!Record /\ Ingest(rec) /\ m \in Message /\ stage[m.id] # "unborn"
        /\ position \in DOMAIN topic /\ m.key = key
    BY <1>0, <1>1, ConsumedRecord DEF ConsumeSigned
  <2>2. m = [id |-> rec.id, key |-> key] /\ m.id \in Ids
    BY <2>1 DEF Message, Ids
  <2>3. IInv'
    BY <2>1, <2>2, IngestKeeps
  <2>4. Store!AddKafka(m.id, "valid")
    BY <2>1 DEF Ingest, Store!AddKafka
  <2> QED  BY <2>2, <2>3, <2>4
<1>2. ASSUME NEW stray \in Strays, ConsumeUnparsed(stray)
      PROVE  IInv' /\ stray \in Ids /\ Store!AddKafka(stray, "invalid")
  <2> DEFINE rec == [id |-> stray, source |-> "kafka", signed |-> "invalid"]
  <2>1. rec \in Store!Record /\ Ingest(rec) /\ stray \notin Events
    BY <1>0, <1>2, ConsumedRecord, PipelineAssumption DEF ConsumeUnparsed
  <2>2. IInv'
    BY <2>1, IngestKeeps
  <2>3. stray \in Ids /\ Store!AddKafka(stray, "invalid")
    BY <2>1 DEF Ingest, Store!AddKafka, Ids
  <2> QED  BY <2>2, <2>3
<1> QED  BY <1>1, <1>2

\* What is appended to the topic is signed by the process that emitted it.
LEMMA PublishKeeps ==
    ASSUME IInv, NEW e \in Events, Publish(e)
    PROVE  IInv'
<1>0. /\ stage[e] = "indexed" /\ topic' = Append(topic, [id |-> e, key |-> key])
      /\ UNCHANGED <<redisUp, proc, key, boots, storeVars, stage, bootOf, producer, consumer, task,
                     indexer, connected, index, position, base, read, committed>>
  BY DEF Publish, outerVars, emitVars, consumerVars
<1>1. topic \in Seq(Message) /\ [id |-> e, key |-> key] \in Message
  BY DEF IInv, TypeOK, Counters, Message
<1>2. /\ topic' \in Seq(Message)
      /\ \A o \in DOMAIN topic : o \in DOMAIN topic' /\ topic'[o] = topic[o]
      /\ \A o \in DOMAIN topic' : o \in DOMAIN topic \/ topic'[o] = [id |-> e, key |-> key]
  BY <1>0, <1>1
<1>3. TypeOK'
  BY <1>0, <1>2 DEF IInv, TypeOK, storeVars
<1>4. Counters' /\ StoreOK'
  BY <1>0, StoreKept DEF IInv, Counters
<1>5. Begun'
  <2>1. \A o \in DOMAIN topic' : stage[topic'[o].id] # "unborn"
    BY <1>0, <1>2 DEF IInv, Begun
  <2> QED  BY <1>0, <2>1 DEF IInv, Begun, storeVars
<1>6. Mirrored'
  BY <1>0 DEF IInv, Mirrored, storeVars
<1>7. ShownAsSignedIsSigned'
  BY <1>0, <1>2 DEF IInv, ShownAsSignedIsSigned, storeVars
<1>8. Progress' /\ Quiet' /\ ConnectedMeansReading'
  BY <1>0 DEF IInv, Progress, ReadTo, Quiet, ConnectedMeansReading
<1> QED  BY <1>3, <1>4, <1>5, <1>6, <1>7, <1>8 DEF IInv

\* KafkaAuditConsumer.start: what was not committed is read from the end on.
LEMMA StartConsumerKeeps ==
    ASSUME IInv, StartConsumer
    PROVE  IInv'
<1>0. /\ proc = "connect" /\ proc' = "up"
      /\ UNCHANGED <<redisUp, key, boots, storeVars, stage, bootOf, producer, indexer, index,
                     topic, read, committed>>
  BY DEF StartConsumer, outerVars, emitVars
<1>1. Counters' /\ StoreOK' /\ Begun' /\ Mirrored' /\ ShownAsSignedIsSigned'
  BY <1>0, StoreUntouched
<1>2. /\ topic \in Seq(Message) /\ position \in Nat \ {0} /\ committed \in Nat
      /\ ~connected /\ task = "none" /\ consumer = "none" /\ ReadTo(committed)
  BY <1>0 DEF IInv, TypeOK, Quiet, Progress
<1>3. CASE kafkaUp
  <2>1. /\ consumer' = "running" /\ task' = "getone" /\ connected' = TRUE
        /\ position' = IF committed = 0 THEN Len(topic) + 1 ELSE committed
        /\ base' = IF committed = 0 THEN Len(topic) + 1 ELSE base
    BY <1>3 DEF StartConsumer
  <2>2. position' \in Nat \ {0}
    BY <1>2, <2>1
  <2>3. TypeOK'
    BY <1>0, <2>1, <2>2 DEF IInv, TypeOK, storeVars
  <2>4. Progress'
    <3>1. CASE committed = 0
      BY <1>0, <1>2, <2>1, <3>1 DEF Progress, ReadTo
    <3>2. CASE committed # 0
      BY <1>0, <1>2, <2>1, <3>2 DEF Progress, ReadTo
    <3> QED  BY <3>1, <3>2
  <2> QED  BY <1>0, <1>1, <2>1, <2>3, <2>4 DEF IInv, Quiet, ConnectedMeansReading
<1>4. CASE ~kafkaUp
  <2>1. connected' = FALSE /\ UNCHANGED <<consumer, task, position, base>>
    BY <1>4 DEF StartConsumer
  <2>2. TypeOK' /\ Progress'
    BY <1>0, <2>1 DEF IInv, TypeOK, storeVars, Progress, ReadTo
  <2> QED  BY <1>0, <1>1, <2>1, <2>2 DEF IInv, Quiet, ConnectedMeansReading
<1> QED  BY <1>3, <1>4

\* The rest of the lifespan: starting and stopping what is around the store.
LEMMA LifespanKeeps ==
    ASSUME IInv,
           StartProducer \/ ConnectIndexer \/ Shutdown \/ StopCleanly \/ StopCutShort \/ Crash
    PROVE  IInv'
<1>1. CASE StartProducer
  <2>1. Counters' /\ StoreOK' /\ Begun' /\ Mirrored' /\ ShownAsSignedIsSigned'
    BY <1>1, StoreUntouched DEF StartProducer, outerVars, emitVars
  <2>2. TypeOK'
    BY <1>1 DEF StartProducer, IInv, TypeOK, storeVars, emitVars, consumerVars
  <2>3. Progress' /\ Quiet' /\ ConnectedMeansReading'
    BY <1>1 DEF StartProducer, consumerVars, IInv, Progress, ReadTo, Quiet, ConnectedMeansReading
  <2> QED  BY <2>1, <2>2, <2>3 DEF IInv
<1>2. CASE ConnectIndexer
  <2>1. Counters' /\ StoreOK' /\ Begun' /\ Mirrored' /\ ShownAsSignedIsSigned'
    BY <1>2, StoreUntouched DEF ConnectIndexer, outerVars, emitVars
  <2>2. TypeOK'
    BY <1>2 DEF ConnectIndexer, IInv, TypeOK, Counters, storeVars, emitVars, consumerVars, outerVars
  <2>3. Progress' /\ Quiet' /\ ConnectedMeansReading'
    BY <1>2 DEF ConnectIndexer, consumerVars, IInv, Progress, ReadTo, Quiet, ConnectedMeansReading
  <2> QED  BY <2>1, <2>2, <2>3 DEF IInv
<1>3. CASE Shutdown
  <2>1. Counters' /\ StoreOK' /\ Begun' /\ Mirrored' /\ ShownAsSignedIsSigned'
    BY <1>3, StoreUntouched DEF Shutdown, outerVars, emitVars
  <2>2. TypeOK'
    BY <1>3 DEF Shutdown, IInv, TypeOK, storeVars, emitVars, consumerVars
  <2>3. Progress' /\ Quiet' /\ ConnectedMeansReading'
    BY <1>3 DEF Shutdown, consumerVars, IInv, Progress, ReadTo, Quiet, ConnectedMeansReading
  <2> QED  BY <2>1, <2>2, <2>3 DEF IInv
<1>4. CASE StopCleanly
  <2>1. Counters' /\ StoreOK' /\ Begun' /\ Mirrored' /\ ShownAsSignedIsSigned'
    BY <1>4, StoreUntouched DEF StopCleanly, outerVars, emitVars
  <2>2. TypeOK'
    BY <1>4 DEF StopCleanly, IInv, TypeOK, storeVars, emitVars
  <2>3. Progress'
    BY <1>4 DEF StopCleanly, IInv, Progress, ReadTo
  <2>4. Quiet' /\ ConnectedMeansReading'
    BY <1>4 DEF StopCleanly, Quiet, ConnectedMeansReading
  <2> QED  BY <2>1, <2>2, <2>3, <2>4 DEF IInv
<1>5. CASE StopCutShort
  <2>1. Counters' /\ StoreOK' /\ Begun' /\ Mirrored' /\ ShownAsSignedIsSigned'
    BY <1>5, StoreUntouched DEF StopCutShort, outerVars, emitVars
  <2>2. TypeOK'
    BY <1>5 DEF StopCutShort, IInv, TypeOK, storeVars, emitVars
  <2>3. Progress' /\ Quiet' /\ ConnectedMeansReading'
    BY <1>5 DEF StopCutShort, IInv, Progress, ReadTo, Quiet, ConnectedMeansReading
  <2> QED  BY <2>1, <2>2, <2>3 DEF IInv
<1>6. CASE Crash
  <2>1. /\ stage' \in [Events -> Stages]
        /\ \A e \in Events : stage'[e] = "unborn" <=> stage[e] = "unborn"
    BY <1>6 DEF Crash, InFlight, IInv, TypeOK, Stages
  <2>2. Counters' /\ StoreOK' /\ Begun' /\ Mirrored' /\ ShownAsSignedIsSigned'
    BY <1>6, <2>1, StoreUntouched DEF Crash, outerVars
  <2>3. TypeOK'
    BY <1>6, <2>1 DEF Crash, IInv, TypeOK, storeVars
  <2>4. Progress' /\ Quiet' /\ ConnectedMeansReading'
    BY <1>6 DEF Crash, IInv, Progress, ReadTo, Quiet, ConnectedMeansReading
  <2> QED  BY <2>2, <2>3, <2>4 DEF IInv
<1> QED  BY <1>1, <1>2, <1>3, <1>4, <1>5, <1>6

\* log_event after the mirror, and the consumer between two messages.
LEMMA LoopsKeep ==
    ASSUME IInv,
           \/ \E e \in Events : Index(e) \/ Returned(e)
           \/ ConsumeFails \/ Wake \/ AutoCommit \/ KafkaOutage \/ RedisOutage
    PROVE  IInv'
<1>1. ASSUME NEW e \in Events, Index(e) \/ Returned(e)
      PROVE  IInv'
  <2>1. /\ stage' \in [Events -> Stages]
        /\ \A f \in Events : stage'[f] = "unborn" <=> stage[f] = "unborn"
    BY <1>1 DEF Index, Returned, IInv, TypeOK, Stages
  <2>2. Counters' /\ StoreOK' /\ Begun' /\ Mirrored' /\ ShownAsSignedIsSigned'
    BY <1>1, <2>1, StoreUntouched DEF Index, Returned, outerVars
  <2>3. TypeOK'
    BY <1>1, <2>1 DEF Index, Returned, IInv, TypeOK, storeVars, consumerVars
  <2>4. Progress' /\ Quiet' /\ ConnectedMeansReading'
    BY <1>1 DEF Index, Returned, consumerVars, IInv, Progress, ReadTo, Quiet,
       ConnectedMeansReading
  <2> QED  BY <2>2, <2>3, <2>4 DEF IInv
<1>2. CASE ConsumeFails \/ Wake
  <2>1. Counters' /\ StoreOK' /\ Begun' /\ Mirrored' /\ ShownAsSignedIsSigned'
    BY <1>2, StoreUntouched DEF ConsumeFails, Wake, outerVars, emitVars
  <2>2. TypeOK'
    BY <1>2 DEF ConsumeFails, Wake, IInv, TypeOK, storeVars, emitVars
  <2>3. Progress' /\ Quiet' /\ ConnectedMeansReading'
    BY <1>2 DEF ConsumeFails, Wake, IInv, Progress, ReadTo, Quiet, ConnectedMeansReading
  <2> QED  BY <2>1, <2>2, <2>3 DEF IInv
<1>3. CASE AutoCommit
  <2>1. Counters' /\ StoreOK' /\ Begun' /\ Mirrored' /\ ShownAsSignedIsSigned'
    BY <1>3, StoreUntouched DEF AutoCommit, outerVars, emitVars
  <2>2. TypeOK'
    BY <1>3 DEF AutoCommit, IInv, TypeOK, storeVars, emitVars, consumerVars
  <2>3. Progress' /\ Quiet' /\ ConnectedMeansReading'
    BY <1>3 DEF AutoCommit, consumerVars, IInv, Progress, ReadTo, Quiet, ConnectedMeansReading
  <2> QED  BY <2>1, <2>2, <2>3 DEF IInv
<1>4. CASE KafkaOutage \/ RedisOutage
  <2>1. Counters' /\ StoreOK' /\ Begun' /\ Mirrored' /\ ShownAsSignedIsSigned'
    BY <1>4, StoreUntouched DEF KafkaOutage, RedisOutage, emitVars
  <2>2. TypeOK'
    BY <1>4 DEF KafkaOutage, RedisOutage, IInv, TypeOK, storeVars, emitVars, consumerVars
  <2>3. Progress' /\ Quiet' /\ ConnectedMeansReading'
    BY <1>4 DEF KafkaOutage, RedisOutage, consumerVars, IInv, Progress, ReadTo, Quiet,
       ConnectedMeansReading
  <2> QED  BY <2>1, <2>2, <2>3 DEF IInv
<1> QED  BY <1>1, <1>2, <1>3, <1>4

-----------------------------------------------------------------------------
LEMMA InitIInv == Init => IInv
<1> SUFFICES ASSUME Init PROVE IInv
  OBVIOUS
<1>1. events = <<>> /\ seen = {} /\ born = {} /\ arrivals = <<>>
  BY DEF Init, Store!Init
<1>2. StoreOK
  BY <1>1, EmptyStore, StoreAssumed DEF StoreOK, StoreProofs!IInv, StoreProofs!TypeOK,
     StoreProofs!OneRecordPerEvent, StoreProofs!SeenCoversBuffer
<1>3. TypeOK /\ Counters
  <2>1. events \in Seq(Store!Record) /\ topic \in Seq(Message)
    BY <1>1 DEF Init
  <2>2. stage \in [Events -> Stages] /\ bootOf \in [Events -> Nat]
        /\ \A e \in Events : bootOf[e] <= boots
    BY DEF Init, Stages
  <2>3. TypeOK
    <3>1. indexer \in BOOLEAN /\ connected \in BOOLEAN
      BY DEF Init
    <3>2. /\ proc = "down" /\ producer = "none" /\ consumer = "none" /\ task = "none"
          /\ index = {} /\ position = 1 /\ committed = 0
      BY DEF Init
    <3> QED  BY <2>1, <2>2, <3>1, <3>2 DEF TypeOK
  <2>4. Counters
    BY <2>2 DEF Init, Counters
  <2> QED  BY <2>3, <2>4
<1>4. Begun /\ Mirrored /\ ShownAsSignedIsSigned
  BY <1>1 DEF Init, Begun, Mirrored, ShownAsSignedIsSigned
<1>5. Progress /\ Quiet /\ ConnectedMeansReading
  BY DEF Init, Progress, ReadTo, Quiet, ConnectedMeansReading
<1> QED  BY <1>2, <1>3, <1>4, <1>5 DEF IInv

LEMMA StepIInv == IInv /\ [Next]_vars => IInv'
<1> SUFFICES ASSUME IInv, [Next]_vars PROVE IInv'
  OBVIOUS
<1>1. CASE Next
  BY <1>1, BootKeeps, EmitKeeps, ConsumeKeeps, PublishKeeps, StartConsumerKeeps,
     LifespanKeeps, LoopsKeep DEF Next
<1>2. CASE UNCHANGED vars
  <2>1. Counters' /\ StoreOK' /\ Begun' /\ Mirrored' /\ ShownAsSignedIsSigned'
    BY <1>2, StoreUntouched DEF vars, outerVars, emitVars
  <2>2. TypeOK'
    BY <1>2 DEF vars, IInv, TypeOK, storeVars, emitVars, consumerVars
  <2>3. Progress' /\ Quiet' /\ ConnectedMeansReading'
    BY <1>2 DEF vars, consumerVars, IInv, Progress, ReadTo, Quiet, ConnectedMeansReading
  <2> QED  BY <2>1, <2>2, <2>3 DEF IInv
<1> QED  BY <1>1, <1>2

\* The invariant holds in every reachable state.
THEOREM Invariant == Spec => []IInv
<1> QED  BY InitIInv, StepIInv, PTL DEF Spec

\* Process, store, topic and offsets are well formed in every state.
THEOREM TypeCorrect == Spec => []TypeOK
<1>1. IInv => TypeOK
  BY DEF IInv
<1> QED  BY <1>1, Invariant, PTL

\* A message of this process was in its store before it was in the topic
\* (log_event: the mirror precedes the publication).
THEOREM MirrorFirst == Spec => []MirrorPrecedesTopic
<1>1. IInv => MirrorPrecedesTopic
  <2> SUFFICES ASSUME IInv, proc # "down", NEW o \in DOMAIN topic,
                      bootOf[topic[o].id] = boots
               PROVE  topic[o].id \in {arrivals[i] : i \in DOMAIN arrivals}
    BY DEF MirrorPrecedesTopic
  <2>1. topic[o].id \in Events /\ stage[topic[o].id] # "unborn"
    BY TopicIds DEF IInv, Begun
  <2> QED  BY <2>1 DEF IInv, Mirrored
<1> QED  BY <1>1, Invariant, PTL

\* A record is shown as signed only if the key of this process signed it, also
\* when messages of earlier processes and other keys are read (_run_loop).
THEOREM SignedIsShown == Spec => []ShownAsSignedIsSigned
<1>1. IInv => ShownAsSignedIsSigned
  BY DEF IInv
<1> QED  BY <1>1, Invariant, PTL

\* The group skips no message: what lies between where it began and its
\* committed offset was handed to a store (KafkaAuditConsumer, auto-commit).
THEOREM NothingSkipped == Spec => []CommittedWasRead
<1>1. IInv => CommittedWasRead
  <2> SUFFICES ASSUME IInv, NEW o \in DOMAIN topic, base <= o, o < committed PROVE o \in read
    BY DEF CommittedWasRead
  <2>1. o \in Nat /\ o >= 1 /\ committed \in Nat
    BY DEF IInv, TypeOK
  <2> QED  BY <2>1 DEF IInv, Progress, ReadTo
<1> QED  BY <1>1, Invariant, PTL

\* The status never says connected of a consumer that does not read
\* (kafka_connected, _run_loop).
THEOREM StatusIsEarned == Spec => []ConnectedMeansReading
<1>1. IInv => ConnectedMeansReading
  BY DEF IInv
<1> QED  BY <1>1, Invariant, PTL

\* The pipeline drives the store only in the ways AuditStore allows, or empties
\* it with a new process.
THEOREM DrivesStoreAsAllowed == Spec => StoreContract
<1>1. IInv /\ [Next]_vars => [\/ Store!Next
                              \/ events' = <<>> /\ seen' = {} /\ arrivals' = <<>>]_storeVars
  <2> SUFFICES ASSUME IInv, [Next]_vars, storeVars' # storeVars
               PROVE  Store!Next \/ (events' = <<>> /\ seen' = {} /\ arrivals' = <<>>)
    OBVIOUS
  <2>1. ASSUME NEW e \in Events, Emit(e) PROVE Store!Next
    <3>1. e \in Ids
      BY DEF Ids
    <3> QED  BY <2>1, <3>1, EmitKeeps DEF Store!Next
  <2>2. CASE ConsumeSigned \/ \E stray \in Strays : ConsumeUnparsed(stray)
    BY <2>2, ConsumeKeeps DEF Store!Next
  <2>3. CASE Boot
    BY <2>3 DEF Boot
  <2> QED  BY <2>1, <2>2, <2>3 DEF Next, StartProducer, ConnectIndexer, StartConsumer,
              Shutdown, StopCleanly, StopCutShort, Crash, Index, Publish, Returned,
              ConsumeFails, Wake, AutoCommit, KafkaOutage, RedisOutage, vars
<1> QED  BY <1>1, Invariant, PTL DEF Spec, StoreContract

\* So what is promised of the store holds in the pipeline: an event is shown
\* once, whatever copies of it the topic holds (log_event, _run_loop, add).
THEOREM ShownOnce == Spec => []Store!OneRecordPerEvent
<1>1. IInv => Store!OneRecordPerEvent
  BY DEF IInv, StoreOK, StoreProofs!IInv, StoreProofs!OneRecordPerEvent,
     Store!OneRecordPerEvent
<1> QED  BY <1>1, Invariant, PTL
=============================================================================
