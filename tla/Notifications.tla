---------------------------- MODULE Notifications ----------------------------
(***************************************************************************)
(* Notifications: notifications/manager.py over notifications/store.py,    *)
(* with its two consumers: the "llm" sink, which appends the notification  *)
(* to the conversation (soul/kimisoul.py), and the "wire" sink, pumped to  *)
(* the UI while a run lasts (soul/__init__.py).  D-Mails and compaction     *)
(* rewrite the conversation that the first sink appends to.                *)
(*                                                                         *)
(* All of it runs on one event loop; only what touches the conversation    *)
(* awaits.  Files outlive a crash, claims are given up after a time.       *)
(***************************************************************************)
EXTENDS Naturals, Sequences, FiniteSets

CONSTANTS
  Notes,        \* notifications, by their dedupe key
  Limit,        \* notifications one poll claims
  \* bounds of the model
  MaxCancels, MaxFailures, MaxCrashes

ASSUME NotificationsAssumption ==
  /\ Limit \in Nat \ {0}
  /\ {MaxCancels, MaxFailures, MaxCrashes} \subseteq Nat

Sink == {"llm", "wire"}

\* none: no entry in delivery.json; stale: claimed for longer than
\* claim_stale_after_ms.
Status == {"none", "pending", "claimed", "stale", "acked"}

VARIABLES
  events,    \* event.json files, by creation time
  delivery,  \* what delivery.json says of each sink
  batch,     \* notifications the llm sink has claimed and not yet handled
  stage,     \* of the oldest of them: claimed, in memory, or written
  history,   \* notifications in the conversation, in memory
  file,      \* ... and in the context file
  heard,     \* (history variable) what each sink was ever given
  lapsed,    \* (history variable) notifications with an append that was cut short
  up,        \* the process runs
  cancels, failures, crashes   \* what the bounds count

bounds == <<cancels, failures, crashes>>
vars == <<events, delivery, batch, stage, history, file, heard, lapsed, up, bounds>>

Elements(s) == {s[i] : i \in DOMAIN s}

NotifyTypeOK ==
  /\ events \in Seq(Notes)
  /\ delivery \in [Notes -> [Sink -> Status]]
  /\ batch \subseteq Elements(events) /\ Cardinality(batch) <= Limit
  /\ stage \in {"idle", "claimed", "memory", "written"}
  /\ (stage = "idle") <=> (batch = {})
  /\ history \in Seq(Notes) /\ file \in Seq(Notes)
  /\ heard \in [Sink -> SUBSET Notes]
  /\ lapsed \subseteq Notes
  /\ up \in BOOLEAN

Init ==
  /\ events = <<>>
  /\ delivery = [n \in Notes |-> [s \in Sink |-> "none"]]
  /\ batch = {} /\ stage = "idle"
  /\ history = <<>> /\ file = <<>>
  /\ heard = [s \in Sink |-> {}] /\ lapsed = {}
  /\ up = TRUE
  /\ cancels = 0 /\ failures = 0 /\ crashes = 0

Mark(d, sink, notes, status) ==
  [n \in Notes |-> IF n \in notes THEN [d[n] EXCEPT ![sink] = status] ELSE d[n]]

-----------------------------------------------------------------------------
\* publish(): a known dedupe key changes nothing.
Publish(n) ==
  /\ up
  /\ n \notin Elements(events)
  /\ events' = Append(events, n)
  /\ delivery' = [delivery EXCEPT ![n] = [s \in Sink |-> "pending"]]
  /\ UNCHANGED <<batch, stage, history, file, heard, lapsed, up, bounds>>

\* Faulty: claims that were lost stay claimed.
RecoverNothing(d) == d

\* recover(): stale claims, of every sink, are pending again.
Recovered(d) ==
  [n \in Notes |-> [s \in Sink |->
     IF d[n][s] = "stale" THEN "pending" ELSE d[n][s]]]

\* list_views() sorts by creation time; the k oldest of S, the oldest of S.
Older(m, n) == \E i, j \in DOMAIN events : i < j /\ events[i] = m /\ events[j] = n
Oldest(S, k) == {n \in S : Cardinality({m \in S : Older(m, n)}) < k}
First(S) == CHOOSE n \in S : \A m \in S : ~Older(m, n)

Pending(sink) == {n \in Elements(events) : Recovered(delivery)[n][sink] = "pending"}

\* Faulty: the limit of a poll is not applied.
ClaimableAll(sink) == Pending(sink)

\* claim_for_sink(): the oldest pending ones, up to the limit.
Claimable(sink) == Oldest(Pending(sink), Limit)

\* A step of the root agent claims for the llm sink.
LlmClaim ==
  /\ up /\ stage = "idle"
  /\ Claimable("llm") # {}
  /\ batch' = Claimable("llm")
  /\ stage' = "claimed"
  /\ delivery' = Mark(Recovered(delivery), "llm", batch', "claimed")
  /\ UNCHANGED <<events, history, file, heard, lapsed, up, bounds>>

\* append_message(): memory first, then the file is awaited.
LlmAppend ==
  /\ stage = "claimed"
  /\ history' = Append(history, First(batch))
  /\ heard' = [heard EXCEPT !["llm"] = @ \cup {First(batch)}]
  /\ stage' = "memory"
  /\ UNCHANGED <<events, delivery, batch, file, lapsed, up, bounds>>

LlmWrite ==
  /\ stage = "memory"
  /\ file' = Append(file, First(batch))
  /\ stage' = "written"
  /\ UNCHANGED <<events, delivery, batch, history, heard, lapsed, up, bounds>>

\* The next notification of the batch, or the end of the poll.
NextOfBatch ==
  /\ batch' = batch \ {First(batch)}
  /\ stage' = IF batch' = {} THEN "idle" ELSE "claimed"

LlmAck ==
  /\ stage = "written"
  /\ delivery' = Mark(delivery, "llm", {First(batch)}, "acked")
  /\ NextOfBatch
  /\ UNCHANGED <<events, history, file, heard, lapsed, up, bounds>>

\* The write fails: the notification stays claimed, the loop goes on.
LlmFails ==
  /\ stage = "memory"
  /\ failures < MaxFailures
  /\ failures' = failures + 1
  /\ lapsed' = lapsed \cup {First(batch)}
  /\ NextOfBatch
  /\ UNCHANGED <<events, delivery, history, file, heard, up, cancels, crashes>>

\* The run is cancelled: CancelledError is not caught by deliver_pending(), and
\* the append's thread may or may not have written.
Cancel ==
  /\ stage # "idle"
  /\ cancels < MaxCancels
  /\ cancels' = cancels + 1
  /\ \/ UNCHANGED file
     \/ stage = "memory" /\ file' = Append(file, First(batch))
  /\ lapsed' = IF stage = "claimed" THEN lapsed ELSE lapsed \cup {First(batch)}
  /\ batch' = {} /\ stage' = "idle"
  /\ UNCHANGED <<events, delivery, history, heard, up, failures, crashes>>

-----------------------------------------------------------------------------
\* Faulty: a notification the UI was not sent is acknowledged too.
WireAcksAll ==
  /\ up
  /\ Claimable("wire") # {}
  /\ LET claimed == Claimable("wire")
     IN  \E failed \in SUBSET claimed :
           /\ failures + Cardinality(failed) <= MaxFailures
           /\ failures' = failures + Cardinality(failed)
           /\ heard' = [heard EXCEPT !["wire"] = @ \cup (claimed \ failed)]
           /\ delivery' = Mark(Recovered(delivery), "wire", claimed, "acked")
  /\ UNCHANGED <<events, batch, stage, history, file, lapsed, up, cancels, crashes>>

\* A poll of the wire pump: claim, send and acknowledge in one go; what cannot
\* be sent stays claimed.
WirePoll ==
  /\ up
  /\ Claimable("wire") # {}
  /\ LET claimed == Claimable("wire")
     IN  \E failed \in SUBSET claimed :
           /\ failures + Cardinality(failed) <= MaxFailures
           /\ failures' = failures + Cardinality(failed)
           /\ heard' = [heard EXCEPT !["wire"] = @ \cup (claimed \ failed)]
           /\ delivery' = Mark(Mark(Recovered(delivery), "wire", failed, "claimed"),
                               "wire", claimed \ failed, "acked")
  /\ UNCHANGED <<events, batch, stage, history, file, lapsed, up, cancels, crashes>>

\* Time passes: a claim becomes stale, also one whose append is under way.
Expire(n, sink) ==
  /\ delivery[n][sink] = "claimed"
  /\ delivery' = [delivery EXCEPT ![n][sink] = "stale"]
  /\ UNCHANGED <<events, batch, stage, history, file, heard, lapsed, up, bounds>>

-----------------------------------------------------------------------------
\* The conversation is rewritten, between two steps of the agent or two runs.
Rewrite ==
  /\ up /\ stage = "idle"
  /\ history # <<>>
  /\ UNCHANGED <<events, delivery, batch, stage, heard, lapsed, up, failures, crashes>>

\* /clear, also the part of a compaction that was carried out when it is cut off.
Clear ==
  /\ Rewrite
  /\ history' = <<>> /\ file' = <<>>
  /\ UNCHANGED cancels

\* A D-Mail: what the file holds before the checkpoint is kept, in memory too.
Revert ==
  /\ Rewrite
  /\ \E k \in 0 .. Len(file) :
       /\ file' = SubSeq(file, 1, k)
       /\ history' = file'
  /\ UNCHANGED cancels

\* Compaction: the newest messages in memory are kept.  They are appended behind
\* the summary, in memory at once, to the file line by line.
Compact ==
  /\ Rewrite
  /\ \E k \in 1 .. Len(history) + 1 : history' = SubSeq(history, k, Len(history))
  /\ \/ file' = history' /\ UNCHANGED cancels
     \/ /\ cancels < MaxCancels
        /\ cancels' = cancels + 1
        /\ \E j \in 0 .. Len(history') : file' = SubSeq(history', 1, j)

-----------------------------------------------------------------------------
\* What is on disk when the process dies inside one of the synchronous
\* operations: an event without its delivery file, or a wire poll that has
\* written some of its claims, or all claims and some acknowledgements.
TornPublish ==
  \E n \in Notes \ Elements(events) :
    events' = Append(events, n) /\ UNCHANGED <<delivery, heard>>

TornWirePoll ==
  LET claimable == Claimable("wire")
  IN  \E i \in 0 .. Cardinality(claimable) : \E j \in 0 .. i :
        /\ j > 0 => i = Cardinality(claimable)
        /\ delivery' = Mark(Mark(Recovered(delivery), "wire", Oldest(claimable, i), "claimed"),
                            "wire", Oldest(claimable, j), "acked")
        /\ heard' = [heard EXCEPT !["wire"] = @ \cup Oldest(claimable, j)]
        /\ UNCHANGED events

Crash ==
  /\ up
  /\ crashes < MaxCrashes
  /\ crashes' = crashes + 1
  /\ up' = FALSE
  /\ \/ UNCHANGED <<events, delivery, heard>>
     \/ TornPublish
     \/ TornWirePoll
  /\ batch' = {} /\ stage' = "idle" /\ history' = <<>>
  /\ UNCHANGED <<file, lapsed, cancels, failures>>

\* Faulty: the restored conversation is not looked through.
RestartForgets ==
  /\ ~up
  /\ up' = TRUE
  /\ history' = file
  /\ UNCHANGED <<events, delivery, batch, stage, file, heard, lapsed, bounds>>

\* The soul acknowledges what the restored conversation holds (ack_ids).  A
\* notification without delivery file gets no sink entry.
Restart ==
  /\ ~up
  /\ up' = TRUE
  /\ history' = file
  /\ delivery' = Mark(delivery, "llm",
                      {n \in Elements(file) : delivery[n]["llm"] # "none"}, "acked")
  /\ UNCHANGED <<events, batch, stage, file, heard, lapsed, bounds>>

Llm == LlmClaim \/ LlmAppend \/ LlmWrite \/ LlmAck

Next ==
  \/ \E n \in Notes : Publish(n) \/ (\E s \in Sink : Expire(n, s))
  \/ LlmClaim \/ LlmAppend \/ LlmWrite \/ LlmAck \/ LlmFails \/ Cancel
  \/ WirePoll \/ Clear \/ Revert \/ Compact \/ Crash \/ Restart

Spec == Init /\ [][Next]_vars

(***************************************************************************)
(* Fairness: the agent keeps taking steps and the pump keeps polling while *)
(* the process is up; it is started again after a crash; claims get old.   *)
(***************************************************************************)
FairSpec ==
  /\ Spec
  /\ WF_vars(Llm) /\ WF_vars(WirePoll) /\ WF_vars(Restart)
  /\ \A n \in Notes : \A s \in Sink : WF_vars(Expire(n, s))

-----------------------------------------------------------------------------
\* An acknowledged notification was handed to its sink: neither a failed
\* handler, a lost claim, a crash nor the restart's ack_ids acknowledges one
\* the agent or the UI never saw.
AckedWasHeard ==
  \A n \in Notes : \A s \in Sink : delivery[n][s] = "acked" => n \in heard[s]

\* The agent is told a thing once: across stale claims, crashes and restarts, and
\* however D-Mails, compaction and /clear rewrite the conversation, a notification
\* is at most once in memory and in the context file.  (One whose append failed or
\* was cancelled may be repeated: it is in memory, and a compaction writes it.)
AtMostOnce(n, s) == \A i, j \in DOMAIN s : s[i] = n /\ s[j] = n => i = j

ToldOnce ==
  \A n \in Notes \ lapsed : AtMostOnce(n, history) /\ AtMostOnce(n, file)

\* A notification whose delivery file was written reaches both sinks, whatever
\* is cancelled, fails or crashes in between.
EachIsDelivered ==
  \A n \in Notes : \A s \in Sink :
    (delivery[n][s] = "pending") ~> (delivery[n][s] = "acked")
=============================================================================
