--------------------------- MODULE AuditPipeline ---------------------------
(***************************************************************************)
(* How an audit event travels: log_event mirrors it into the in-memory     *)
(* store, indexes it in Redis, signs it and publishes it to Kafka          *)
(* (services/audit.py); the consumer of the same process reads the topic   *)
(* back and upgrades the stored record (services/kafka_audit_consumer.py). *)
(* The lifespan of main.py starts and stops both; a crash loses the memory *)
(* of the process but neither the topic nor the committed offset.          *)
(***************************************************************************)
EXTENDS Naturals, Sequences, FiniteSets

CONSTANTS Events,      \* the events emitted, by id
          Strays,      \* ids drawn for messages that do not decode
          MaxLen,      \* maxlen of the store
          MaxCopies,   \* bound: copies of a message the producer's retries append
          MaxBoots,    \* bound: processes started
          MaxFaults    \* bound: outages of Kafka and Redis

ASSUME PipelineAssumption ==
    /\ Events \cap Strays = {} /\ IsFiniteSet(Events) /\ IsFiniteSet(Strays)
    /\ MaxLen \in Nat \ {0} /\ MaxCopies \in Nat
    /\ MaxBoots \in Nat /\ MaxFaults \in Nat

VARIABLES
    proc,      \* "down", "boot", "produce", "connect", "up" or "stopping"
    key,       \* the signing key of the process: 0 the configured one, or the
               \* one generated by the process of that number
    boots, faults,
    kafkaUp, redisUp,
    events, seen, born, arrivals,  \* the store of this process: AuditStore
    stage,     \* where log_event is with each event
    bootOf,    \* history: the process that emitted an event
    producer,  \* AuditService.producer: "none" or "running"
    indexer,   \* RedisAuditIndexer.redis is set
    index,     \* the ids under audit:msg:* in Redis
    topic,     \* the log of the topic audit-logs
    consumer,  \* KafkaAuditConsumer._consumer: "none" or "running"
    task,      \* _run_loop: "none", "getone" or "sleeping"
    position,  \* the offset the consumer reads next
    committed, \* the offset committed for the group, 0: none
    base,      \* history: where reading began when nothing was committed
    read,      \* history: the offsets handed to the store, by any process
    connected  \* audit_store.kafka_connected

storeVars    == <<events, seen, born, arrivals>>
emitVars     == <<stage, bootOf>>
consumerVars == <<consumer, task, position, base, read, connected>>
outerVars    == <<boots, faults, kafkaUp, redisUp>>
vars == <<proc, key, outerVars, storeVars, emitVars, producer, indexer, index,
          topic, consumerVars, committed>>

Ids == Events \cup Strays
Store == INSTANCE AuditStore WITH SeenFactor <- 3, MaxArrivals <- Cardinality(Ids) + MaxBoots

Stages == {"unborn", "mirrored", "indexed", "done", "lost"}
Message == [id : Events, key : Nat]
\* Faulty variant: the mirrored record claims a signature.
LocalSigned(e) == [id |-> e, source |-> "local", signed |-> "valid"]

Local(e) == [id |-> e, source |-> "local", signed |-> "none"]

CopiesOf(e) == Cardinality({o \in DOMAIN topic : topic[o].id = e})
InFlight == {e \in Events : stage[e] \in {"mirrored", "indexed"}}

-----------------------------------------------------------------------------
Init == /\ proc = "down" /\ key = 0
        /\ boots = 0 /\ faults = 0
        /\ kafkaUp = TRUE /\ redisUp = TRUE
        /\ Store!Init
        /\ stage = [e \in Events |-> "unborn"]
        /\ bootOf = [e \in Events |-> 0]
        /\ producer = "none" /\ indexer = FALSE /\ index = {}
        /\ topic = <<>>
        /\ consumer = "none" /\ task = "none"
        /\ position = 1 /\ committed = 0 /\ base = 1 /\ read = {}
        /\ connected = FALSE

-----------------------------------------------------------------------------
(* The lifespan.                                                           *)

\* A process imports the modules: the key that is configured or a new one, an
\* empty store, nothing running.
Boot == /\ proc = "down" /\ boots < MaxBoots
        /\ proc' = "boot"
        /\ boots' = boots + 1
        /\ key' \in {0, boots'}
        /\ events' = <<>> /\ seen' = {} /\ arrivals' = <<>>
        /\ producer' = "none" /\ indexer' = FALSE
        /\ consumer' = "none" /\ task' = "none" /\ connected' = FALSE
        /\ UNCHANGED <<faults, kafkaUp, redisUp, born, emitVars, index, topic,
                       position, base, read, committed>>

\* AuditService.start: without Kafka there is no producer for this process.
StartProducer == /\ proc = "boot"
                 /\ proc' = "produce"
                 /\ producer' = IF kafkaUp THEN "running" ELSE "none"
                 /\ UNCHANGED <<key, outerVars, storeVars, emitVars, indexer, index,
                                topic, consumerVars, committed>>

\* RedisAuditIndexer.connect: without Redis there is no index for this process.
ConnectIndexer == /\ proc = "produce"
                  /\ proc' = "connect"
                  /\ indexer' = redisUp
                  /\ UNCHANGED <<key, outerVars, storeVars, emitVars, producer,
                                 index, topic, consumerVars, committed>>

\* Faulty variant: no committed offset is taken for offset zero.
StartConsumerAtZero ==
    /\ proc = "connect" /\ kafkaUp
    /\ proc' = "up"
    /\ consumer' = "running" /\ task' = "getone" /\ connected' = TRUE
    /\ position' = committed
    /\ UNCHANGED <<key, outerVars, storeVars, emitVars, producer, indexer, index,
                   topic, base, read, committed>>

\* KafkaAuditConsumer.start: resume at the committed offset, or at the end of
\* the topic (auto_offset_reset latest); a failure is not tried again.
StartConsumer ==
    /\ proc = "connect"
    /\ proc' = "up"
    /\ IF kafkaUp
       THEN /\ consumer' = "running" /\ task' = "getone" /\ connected' = TRUE
            /\ position' = IF committed = 0 THEN Len(topic) + 1 ELSE committed
            /\ base' = IF committed = 0 THEN Len(topic) + 1 ELSE base
       ELSE /\ connected' = FALSE
            /\ UNCHANGED <<consumer, task, position, base>>
    /\ UNCHANGED <<key, outerVars, storeVars, emitVars, producer, indexer, index,
                   topic, read, committed>>

\* uvicorn has drained the requests and leaves the lifespan: stop() sets the
\* stop event and cancels the task.
Shutdown == /\ proc = "up"
            /\ InFlight = {}
            /\ proc' = "stopping"
            /\ UNCHANGED <<key, outerVars, storeVars, emitVars, producer, indexer,
                           index, topic, consumerVars, committed>>

\* The cancelled task was in getone: the loop catches CancelledError and ends;
\* the consumer commits and closes, then the producer and the indexer stop.
StopCleanly ==
    /\ proc = "stopping" /\ task \in {"none", "getone"}
    /\ proc' = "down"
    /\ committed' = IF consumer = "running" /\ kafkaUp THEN position ELSE committed
    /\ consumer' = "none" /\ task' = "none" /\ connected' = FALSE
    /\ producer' = "none" /\ indexer' = FALSE
    /\ UNCHANGED <<key, outerVars, storeVars, emitVars, index, topic, position,
                   base, read>>

\* The cancelled task was in sleep(1.0): CancelledError leaves the task and
\* stop(), whose `except Exception` does not catch it, and the lifespan ends
\* there: neither the consumer nor the producer is stopped.
StopCutShort ==
    /\ proc = "stopping" /\ task = "sleeping"
    /\ proc' = "down"
    /\ task' = "none"
    /\ UNCHANGED <<key, outerVars, storeVars, emitVars, producer, indexer, index,
                   topic, consumer, position, base, read, connected, committed>>

\* The process dies at any point.
Crash == /\ proc # "down"
         /\ proc' = "down"
         /\ stage' = [e \in Events |-> IF e \in InFlight THEN "lost" ELSE stage[e]]
         /\ task' = "none" /\ consumer' = "none" /\ producer' = "none"
         /\ UNCHANGED <<key, outerVars, storeVars, bootOf, indexer, index, topic,
                        position, base, read, connected, committed>>

-----------------------------------------------------------------------------
(* log_event, up to its awaits of Redis and Kafka.                         *)

\* Faulty variant: the event is not mirrored.
EmitUnmirrored(e) == /\ proc = "up"
                     /\ stage[e] = "unborn"
                     /\ stage' = [stage EXCEPT ![e] = "mirrored"]
                     /\ bootOf' = [bootOf EXCEPT ![e] = boots]
                     /\ UNCHANGED <<proc, key, outerVars, storeVars, producer, indexer,
                                    index, topic, consumerVars, committed>>

Emit(e) == /\ proc = "up"
           /\ stage[e] = "unborn"
           /\ stage' = [stage EXCEPT ![e] = "mirrored"]
           /\ bootOf' = [bootOf EXCEPT ![e] = boots]
           /\ born' = born \cup {e}
           /\ Store!Add(Local(e)) /\ Store!Arrive(Local(e))
           /\ UNCHANGED <<proc, key, outerVars, producer, indexer, index,
                          topic, consumerVars, committed>>

\* index_event: errors are swallowed. The client has no timeout: a Redis that
\* takes the commands and does not answer keeps the event here, and no fairness
\* says that it ever goes on.
Index(e) == /\ proc = "up"
            /\ stage[e] = "mirrored"
            /\ stage' = [stage EXCEPT ![e] = "indexed"]
            /\ index' = IF indexer /\ redisUp THEN index \cup {e} ELSE index
            /\ UNCHANGED <<proc, key, outerVars, storeVars, bootOf, producer,
                           indexer, topic, consumerVars, committed>>

\* The broker appends the message; the producer may send it again when the
\* acknowledgement does not come.
Publish(e) == /\ proc = "up"
              /\ stage[e] = "indexed"
              /\ producer = "running" /\ kafkaUp
              /\ CopiesOf(e) < MaxCopies
              /\ topic' = Append(topic, [id |-> e, key |-> key])
              /\ UNCHANGED <<proc, key, outerVars, storeVars, emitVars, producer,
                             indexer, index, consumerVars, committed>>

\* send_and_wait returns or raises, whether or not the broker has the message,
\* or there is no producer: log_event returns all the same.
Returned(e) == /\ proc = "up"
               /\ stage[e] = "indexed"
               /\ stage' = [stage EXCEPT ![e] = "done"]
               /\ UNCHANGED <<proc, key, outerVars, storeVars, bootOf, producer, indexer,
                              index, topic, consumerVars, committed>>

-----------------------------------------------------------------------------
(* The consumer.                                                           *)

\* getone returns a message and nothing suspends until its record is stored.
Ingest(rec) ==
    /\ proc = "up"
    /\ task = "getone" /\ kafkaUp
    /\ Store!Add(rec) /\ Store!Arrive(rec)
    /\ born' = born \cup {rec.id}
    /\ position' = position + 1
    /\ read' = read \cup {position}
    /\ UNCHANGED <<proc, key, outerVars, emitVars, producer, indexer, index,
                   topic, consumer, task, base, connected, committed>>

\* Faulty variant: the signature is not checked.
ConsumeUnchecked ==
    /\ position <= Len(topic)
    /\ Ingest([id |-> topic[position].id, source |-> "kafka", signed |-> "valid"])

\* The key of this process verifies the message: it is the event.
ConsumeSigned ==
    /\ position <= Len(topic)
    /\ topic[position].key = key
    /\ Ingest([id |-> topic[position].id, source |-> "kafka", signed |-> "valid"])

\* It does not, and a token is not JSON: an unparsed message without an id,
\* which the store gives a fresh one. The raw JSON that log_event sends when
\* signing fails is left out: it signs a dictionary of its own with its own key.
ConsumeUnparsed(stray) ==
    /\ position <= Len(topic)
    /\ topic[position].key # key
    /\ stray \notin born
    /\ Ingest([id |-> stray, source |-> "kafka", signed |-> "invalid"])

\* Faulty variant: the status is left alone.
ConsumeFailsSilently ==
    /\ proc = "up"
    /\ task = "getone" /\ ~kafkaUp
    /\ task' = "sleeping"
    /\ UNCHANGED <<proc, key, outerVars, storeVars, emitVars, producer, indexer,
                   index, topic, consumer, position, base, read, connected,
                   committed>>

\* getone raises: the status says disconnected, and nothing sets it back.
ConsumeFails ==
    /\ proc = "up"
    /\ task = "getone" /\ ~kafkaUp
    /\ task' = "sleeping"
    /\ connected' = FALSE
    /\ UNCHANGED <<proc, key, outerVars, storeVars, emitVars, producer, indexer,
                   index, topic, consumer, position, base, read, committed>>

\* Faulty variant: the loop goes on only while the status says connected.
WakeConnected == /\ proc = "up"
                 /\ task = "sleeping" /\ connected
                 /\ task' = "getone"
                 /\ UNCHANGED <<proc, key, outerVars, storeVars, emitVars, producer,
                                indexer, index, topic, consumer, position, base, read,
                                connected, committed>>

Wake == /\ proc = "up"
        /\ task = "sleeping"
        /\ task' = "getone"
        /\ UNCHANGED <<proc, key, outerVars, storeVars, emitVars, producer, indexer,
                       index, topic, consumer, position, base, read, connected,
                       committed>>

\* Faulty variant: the end of the topic is committed.
AutoCommitEnd == /\ consumer = "running" /\ kafkaUp
                 /\ proc \in {"up", "stopping"}
                 /\ committed' = Len(topic) + 1
                 /\ UNCHANGED <<proc, key, outerVars, storeVars, emitVars, producer,
                                indexer, index, topic, consumerVars>>

\* enable_auto_commit: the client commits the position now and then.
AutoCommit == /\ consumer = "running" /\ kafkaUp
              /\ proc \in {"up", "stopping"}
              /\ committed' = position
              /\ UNCHANGED <<proc, key, outerVars, storeVars, emitVars, producer,
                             indexer, index, topic, consumerVars>>

-----------------------------------------------------------------------------
KafkaOutage == /\ faults < MaxFaults /\ faults' = faults + 1
               /\ kafkaUp' = ~kafkaUp
               /\ UNCHANGED <<proc, key, boots, redisUp, storeVars, emitVars, producer,
                              indexer, index, topic, consumerVars, committed>>

\* Redis goes and comes back; without persistence it comes back empty.
RedisOutage == /\ faults < MaxFaults /\ faults' = faults + 1
               /\ redisUp' = ~redisUp
               /\ index' = {}
               /\ UNCHANGED <<proc, key, boots, kafkaUp, storeVars, emitVars, producer,
                              indexer, topic, consumerVars, committed>>

Next == \/ Boot \/ StartProducer \/ ConnectIndexer \/ StartConsumer
        \/ Shutdown \/ StopCleanly \/ StopCutShort \/ Crash
        \/ \E e \in Events : Emit(e) \/ Index(e) \/ Publish(e) \/ Returned(e)
        \/ ConsumeSigned \/ \E stray \in Strays : ConsumeUnparsed(stray)
        \/ ConsumeFails \/ Wake \/ AutoCommit
        \/ KafkaOutage \/ RedisOutage

Spec == Init /\ [][Next]_vars

\* The event loop runs what is ready: an available message is fetched, and
\* sleep(1.0) ends. Of the calls of log_event nothing is assumed.
Fairness ==
    /\ WF_vars(ConsumeSigned \/ \E stray \in Strays : ConsumeUnparsed(stray))
    /\ WF_vars(Wake)

FairSpec == Spec /\ Fairness

-----------------------------------------------------------------------------
TypeOK == /\ proc \in {"down", "boot", "produce", "connect", "up", "stopping"}
          /\ stage \in [Events -> Stages]
          /\ topic \in Seq(Message)
          /\ producer \in {"none", "running"} /\ consumer \in {"none", "running"}
          /\ task \in {"none", "getone", "sleeping"}
          /\ indexer \in BOOLEAN /\ connected \in BOOLEAN
          /\ index \subseteq Events
          /\ position \in Nat \ {0} /\ committed \in Nat
          /\ events \in Seq(Store!Record)

\* The order inside log_event: what this process has in the topic was in its
\* store first, so the copy read back finds its local record or a place it has
\* lost to newer events, and never enters as news.
MirrorPrecedesTopic ==
    proc # "down" =>
      \A o \in DOMAIN topic :
         bootOf[topic[o].id] = boots => topic[o].id \in {arrivals[i] : i \in DOMAIN arrivals}

\* A record is shown as signed only if the key this process holds signed it.
ShownAsSignedIsSigned ==
    proc # "down" => \A i \in DOMAIN events :
      events[i].signed = "valid" =>
        \E o \in DOMAIN topic : topic[o] = [id |-> events[i].id, key |-> key]

\* Every message from where the group began to below its committed offset was
\* handed to a store: no crash, redelivery or auto-commit between getone and the
\* store makes the group skip one.
CommittedWasRead ==
    \A o \in DOMAIN topic : base <= o /\ o < committed => o \in read

\* /consumer-status never says connected while the consumer is absent or in
\* its error sleep; the converse fails, see the README (KafkaAuditConsumer).
ConnectedMeansReading == proc = "up" /\ connected => task = "getone"

\* Within the life of a process the pipeline drives the store only in the ways
\* AuditStore allows: what holds of every behaviour of AuditStore holds here.
StoreContract ==
    [][\/ Store!Next
       \/ events' = <<>> /\ seen' = {} /\ arrivals' = <<>>]_storeVars

\* A consumer gets through outages: once Kafka stays, a process that stays up
\* and started its consumer reads every message ahead of it (_run_loop), even
\* while Redis holds calls of log_event that never return.
ConsumerRecovers ==
    <>[](kafkaUp /\ proc = "up" /\ consumer = "running")
      => \A o \in 1 .. MaxCopies * Cardinality(Events) : [](o <= Len(topic) => <>(position > o))
=============================================================================
