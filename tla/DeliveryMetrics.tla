--------------------------- MODULE DeliveryMetrics ---------------------------
(***************************************************************************)
(* The delivery counters of services/webhookDispatcher.js: counted in the  *)
(* memory of a process, written through to Redis, and loaded from there    *)
(* when the next process starts.  Processes come one after the other.      *)
(*                                                                         *)
(* Of the five counters, the two that tell what the properties need; the   *)
(* aggregate and the hash of one webhook, which are read and written by    *)
(* commands of their own.                                                  *)
(***************************************************************************)
EXTENDS Naturals, Sequences

CONSTANTS
  MaxDeliveries,   \* bound: deliveries that end
  MaxMetricsFaults \* bound: failed commands, deaths of the process

ASSUME MetricsConfig == MaxDeliveries \in Nat /\ MaxMetricsFaults \in Nat

VARIABLES
  counting,     \* "down", "hydrating" or "up"
  memory,       \* metrics of the process
  durable,      \* the hashes in Redis
  unsent,       \* pipelines of counters on their way to Redis
  delivered,    \* history: deliveries that ended, and how many succeeded
  memoryEmpty,  \* history: this process could not load the counters
  lostCounts,   \* history: a pipeline failed, or never left
  metricsFaults

metricsVars == <<counting, memory, durable, unsent, delivered, memoryEmpty, lostCounts, metricsFaults>>

\* The hashes in Redis: the aggregate, and that of one webhook.
Hash == {"aggregate", "webhook"}
Zero == [total |-> 0, success |-> 0]
NoCounters == [h \in Hash |-> Zero]

MetricsInit ==
  /\ counting = "down"
  /\ memory = NoCounters /\ durable = NoCounters /\ unsent = <<>>
  /\ delivered = Zero /\ memoryEmpty = FALSE /\ lostCounts = FALSE
  /\ metricsFaults = 0

MetricsFault == metricsFaults < MaxMetricsFaults /\ metricsFaults' = metricsFaults + 1

Plus(counts, success) ==
  [total |-> counts.total + 1, success |-> counts.success + (IF success THEN 1 ELSE 0)]

ProcessStarts ==
  /\ counting = "down" /\ counting' = "hydrating"
  /\ memory' = NoCounters /\ memoryEmpty' = FALSE
  /\ UNCHANGED <<durable, unsent, delivered, lostCounts, metricsFaults>>

\* hydrateMetrics replaces what is in memory, before anything is delivered.  The
\* aggregate and the webhooks' keys are read first, then each webhook's hash; a
\* failure of the first loads nothing, one of the second the aggregate alone.
hydrateMetrics ==
  /\ counting = "hydrating" /\ counting' = "up"
  /\ \/ memory' = durable /\ UNCHANGED <<memoryEmpty, metricsFaults>>
     \/ /\ MetricsFault /\ memoryEmpty' = TRUE
        /\ memory' \in {NoCounters, [NoCounters EXCEPT !["aggregate"] = durable["aggregate"]]}
  /\ UNCHANGED <<durable, unsent, delivered, lostCounts>>

\* recordDeliveryEnd: the counters in memory, and a pipeline that nobody awaits.
recordDeliveryEnd(success) ==
  /\ counting = "up" /\ delivered.total < MaxDeliveries
  /\ memory' = [h \in Hash |-> Plus(memory[h], success)]
  /\ delivered' = Plus(delivered, success)
  /\ unsent' = Append(unsent, success)
  /\ UNCHANGED <<counting, durable, memoryEmpty, lostCounts, metricsFaults>>

\* _persistDeliveryMetrics increments the hashes in Redis.
Persisted_MemoryCopied(success) == memory

Persisted(success) == [h \in Hash |-> Plus(durable[h], success)]

\* Redis executes the pipeline, or one part of it only, or nothing.
PipelineExecuted ==
  /\ unsent # <<>> /\ unsent' = Tail(unsent)
  /\ \/ durable' = Persisted(Head(unsent)) /\ UNCHANGED <<lostCounts, metricsFaults>>
     \/ /\ MetricsFault /\ lostCounts' = TRUE
        /\ durable' \in {durable} \cup {[durable EXCEPT ![h] = Plus(@, Head(unsent))] : h \in Hash}
  /\ UNCHANGED <<counting, memory, delivered, memoryEmpty>>

\* The process ends, gracefully when what it had queued is sent.
ProcessEnds ==
  /\ counting # "down" /\ counting' = "down"
  /\ unsent' = <<>>
  /\ IF unsent = <<>> THEN UNCHANGED <<lostCounts, metricsFaults>>
     ELSE MetricsFault /\ lostCounts' = TRUE
  /\ UNCHANGED <<memory, durable, delivered, memoryEmpty>>

MetricsNext ==
  \/ ProcessStarts \/ hydrateMetrics
  \/ \E success \in BOOLEAN : recordDeliveryEnd(success)
  \/ PipelineExecuted \/ ProcessEnds

-----------------------------------------------------------------------------

\* The counters in Redis are the deliveries that ended, over any number of
\* processes and whatever a process could load, except for those on their way;
\* unless a pipeline failed, or a process ended before it was through.  And a
\* process that loaded them counts every delivery once.
CountersDurable ==
  ~lostCounts =>
    /\ \A h \in Hash : durable[h].total + Len(unsent) = delivered.total
    /\ counting = "up" /\ ~memoryEmpty => \A h \in Hash : memory[h] = delivered

=============================================================================
