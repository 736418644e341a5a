-------------------------- MODULE OverwriteBenchmark -------------------------
(****************************************************************************)
(* run_overwrite_benchmark of benchmark/TscBenchmarkMain.cpp, and of        *)
(* BenchmarkMain.cpp, around an SPMCOverwriteQueue: how its threads start   *)
(* and stop.  publish never waits, so a consumer cannot count the items it  *)
(* is owed; it stops when the queue is empty although the producer is done. *)
(* Consumers may also join while the producer is running.  Time stamps and  *)
(* the pace of the producer are left to TscBenchmark.                       *)
(****************************************************************************)
EXTENDS SPMCOverwriteQueue, FiniteSets

VARIABLES
  done,      \* done
  draining,  \* the local draining of each consumer
  loop,      \* where each consumer is in its for (;;)
  start      \* history: pos_ of each consumer when it was created

loopVars == <<done, draining, loop, start>>
benchVars == <<vars, loopVars>>

BenchInit ==
  /\ Init
  /\ done = FALSE
  /\ draining = [c \in Consumers |-> FALSE]
  /\ loop = [c \in Consumers |-> "read"]
  /\ start = [c \in Consumers |-> 0]

-----------------------------------------------------------------------------
Publish == (MarkBusy \/ ConstructThrows \/ ProducerStep) /\ UNCHANGED loopVars

StoreDone ==
  /\ ~done /\ writePos = Items /\ ppc = "idle"
  /\ done' = TRUE
  /\ UNCHANGED <<vars, draining, loop, start>>

-----------------------------------------------------------------------------
Subscribe(c) ==
  /\ MakeConsumer(c)
  /\ start' = [start EXCEPT ![c] = pos'[c]]
  /\ UNCHANGED <<done, draining, loop>>

ReturnsEmpty(c) == cpc[c] = "idle" /\ cpc'[c] = "idle"

(* A step of try_read.  After Ok and Lapped the loop continues.             *)
TryRead(c) ==
  /\ loop[c] = "read" /\ ConsumerStep(c)
  /\ \/ ~ReturnsEmpty(c) /\ UNCHANGED loop
     \/ /\ ReturnsEmpty(c)
        /\ loop' = [loop EXCEPT ![c] = IF draining[c] THEN "left" ELSE "load_done"]
  /\ UNCHANGED <<done, draining, start>>

(* An acquire load of TRUE synchronizes with all that the producer did.     *)
SeesDone(c) ==
  /\ done
  /\ seqSeen' = [seqSeen EXCEPT ![c] = [i \in Slots |-> Latest(seq[i])]]
  /\ pubSeen' = [pubSeen EXCEPT ![c] = Latest(published)]
  /\ UNCHANGED <<producerVars, pos, missed, cpc, s1, newest, toRead, out, received>>

(* Variant: leave at once.                                                  *)
LoadDoneAndLeave(c) ==
  /\ loop[c] = "load_done"
  /\ \/ SeesDone(c) /\ loop' = [loop EXCEPT ![c] = "left"]
     \/ UNCHANGED vars /\ loop' = [loop EXCEPT ![c] = "read"]
  /\ UNCHANGED <<done, draining, start>>

(* Variant: the test is not repeated.                                       *)
LoadDoneOnce(c) ==
  /\ loop[c] = "load_done"
  /\ UNCHANGED <<vars, draining>>
  /\ loop' = [loop EXCEPT ![c] = "read"]
  /\ UNCHANGED <<done, start>>

(* if (done.load()) draining = true: one more pass over the queue.          *)
LoadDone(c) ==
  /\ loop[c] = "load_done"
  /\ \/ SeesDone(c) /\ draining' = [draining EXCEPT ![c] = TRUE]
     \/ UNCHANGED <<vars, draining>>
  /\ loop' = [loop EXCEPT ![c] = "read"]
  /\ UNCHANGED <<done, start>>

-----------------------------------------------------------------------------
BenchNext ==
  \/ Publish \/ StoreDone
  \/ \E c \in Consumers : Subscribe(c) \/ TryRead(c) \/ LoadDone(c)

(* Every thread keeps running, and a load is given the latest value sooner  *)
(* or later.                                                                *)
Fairness ==
  /\ WF_benchVars(Publish) /\ WF_benchVars(StoreDone)
  /\ \A c \in Consumers :
       /\ WF_benchVars(TryRead(c) \/ LoadDone(c))
       /\ SF_benchVars(TryRead(c) /\ LoadSeq(c) /\ s1'[c] = Latest(seq[Slot(pos[c])]))
       /\ SF_benchVars(LoadDone(c) /\ draining'[c])

BenchSpec == BenchInit /\ [][BenchNext]_benchVars /\ Fairness
-----------------------------------------------------------------------------
(* Properties.                                                              *)

(* The loss rate is missed over received + missed: a consumer leaves only   *)
(* when these add up to every item published since it was created, however  *)
(* late it saw the producer's stores (if no T throws on the way).           *)
LossAddsUp ==
  \A c \in Consumers :
    loop[c] = "left" /\ thrown = {} =>
      start[c] + Cardinality(received[c]) + missed[c] = Items + 1

(* main's join: the producer finishes and every consumer leaves, also one   *)
(* that was lapped, one that joined late and one at a slot left marked.     *)
EveryoneLeaves ==
  \A c \in Consumers : cpc[c] # "absent" ~> loop[c] = "left"
=============================================================================
