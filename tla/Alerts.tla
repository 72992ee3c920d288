------------------------------- MODULE Alerts -------------------------------
(***************************************************************************)
(* Price alerts of one asset (services/alerts.js): create, remove, the     *)
(* index backfill, and the evaluation that fires alerts through            *)
(* webhook.deliver (services/webhook.js).  An evaluation that times out is *)
(* not cancelled: the refresh job goes on, and its next tick may find the  *)
(* old evaluation still at work.                                           *)
(*                                                                         *)
(* A price is "low" or "high", either side of every threshold; a change_pct *)
(* alert is triggered when the price left its baseline.  Times are only    *)
(* compared with the cooldown: "recent" is within it.                      *)
(***************************************************************************)
EXTENDS Naturals, FiniteSets

CONSTANTS
  Alert,        \* alert ids
  AlertType,    \* types asked for
  Evaluation,   \* runs of evaluateForAssetInner
  NoAlert,      \* null
  MaxAlertFaults  \* bound: commands that reject

\* The record of an alert: last is last_fired_at, baseline is baseline_price.
AlertRecord ==
  [type : {"above", "below", "change_pct"}, repeat : BOOLEAN,
   last : {"never", "recent", "past"}, baseline : {"none", "low", "high"}]

ASSUME AlertsConfig ==
  /\ AlertType \subseteq {"above", "below", "change_pct"}
  /\ NoAlert \notin Alert \cup Evaluation \cup AlertRecord
  /\ MaxAlertFaults \in Nat

VARIABLES
  alert,      \* alert:<id>
  alertIds,   \* alerts:ids
  assetIds,   \* alerts:asset:<asset>
  cooldown,   \* alert:cooldown:<asset>, "recent" or "past"
  quote,      \* the cached price
  eval,       \* each evaluation's place
  awaited,    \* the evaluation the refresh cycle waits for
  dropping,   \* ids whose removal by request has read the record
  backfill,   \* what backfillAssetIndex has read
  fired,      \* history: one-shot alerts that were delivered
  twice,      \* history: those delivered again
  gone,       \* history: alerts whose removal was committed
  overlapped, \* history: an evaluation began while another ran
  revived,    \* history: removed alerts that a backfill put back in the index
  alertFaults

alertVars == <<alert, alertIds, assetIds, cooldown, quote, eval, awaited, dropping, backfill,
               fired, twice, gone, overlapped, revived, alertFaults>>
stores == <<alert, alertIds, assetIds, cooldown>>
requests == <<dropping, backfill>>
alertHistory == <<fired, twice, gone, overlapped, revived>>

Idle == [pc |-> "idle", price |-> "low", todo |-> {}, id |-> NoAlert, read |-> NoAlert,
         silent |-> {}]

AlertsInit ==
  /\ alert = [a \in Alert |-> NoAlert]
  /\ alertIds = {} /\ assetIds = {}
  /\ cooldown = "past"
  /\ quote \in {"low", "high"}
  /\ eval = [e \in Evaluation |-> Idle]
  /\ awaited = NoAlert
  /\ dropping = {} /\ backfill = NoAlert
  /\ fired = {} /\ twice = {}
  /\ gone = {} /\ overlapped = FALSE /\ revived = {}
  /\ alertFaults = 0

AlertFault == alertFaults < MaxAlertFaults /\ alertFaults' = alertFaults + 1

-----------------------------------------------------------------------------
(* Requests *)

\* create(): one MULTI, under a new id; a change_pct alert starts from the
\* cached price, if there was one.
CreateAlert(a, type, repeat) ==
  /\ alert[a] = NoAlert /\ a \notin gone
  /\ \E b \in {"none", quote} :
       /\ type # "change_pct" => b = "none"
       /\ alert' = [alert EXCEPT ![a] = [type |-> type, repeat |-> repeat, last |-> "never",
                                         baseline |-> b]]
  /\ alertIds' = alertIds \cup {a}
  /\ assetIds' = assetIds \cup {a}
  /\ UNCHANGED <<cooldown, quote, eval, awaited, requests, alertHistory, alertFaults>>

\* remove(): GET, then one MULTI.
Drop(a) ==
  /\ alert' = [alert EXCEPT ![a] = NoAlert]
  /\ alertIds' = alertIds \ {a}
  /\ assetIds' = assetIds \ {a}
  /\ gone' = gone \cup {a}

RemoveGetAlert(a) ==
  /\ alert[a] # NoAlert /\ a \notin dropping
  /\ dropping' = dropping \cup {a}
  /\ UNCHANGED <<stores, quote, eval, awaited, backfill, alertHistory, alertFaults>>

RemoveAlert(a) ==
  /\ a \in dropping
  /\ dropping' = dropping \ {a}
  /\ Drop(a)
  /\ UNCHANGED <<cooldown, quote, eval, awaited, backfill, fired, twice, overlapped, revived,
                 alertFaults>>

\* backfillAssetIndex(): the ids that have a record, then one MULTI.
BackfillRead ==
  /\ backfill = NoAlert
  /\ backfill' = {a \in alertIds : alert[a] # NoAlert}
  /\ backfill' # {}
  /\ UNCHANGED <<stores, quote, eval, awaited, dropping, alertHistory, alertFaults>>

BackfillWrite ==
  /\ backfill # NoAlert
  /\ assetIds' = assetIds \cup backfill
  /\ revived' = revived \cup (backfill \cap gone)
  /\ backfill' = NoAlert
  /\ UNCHANGED <<alert, alertIds, cooldown, quote, eval, awaited, dropping, fired, twice, gone,
                 overlapped, alertFaults>>

QuoteMoves ==
  /\ quote' \in {"low", "high"} \ {quote}
  /\ UNCHANGED <<stores, eval, awaited, requests, alertHistory, alertFaults>>

\* COOLDOWN_MS passes for everything that fired so far.
CooldownPasses ==
  /\ cooldown = "recent" \/ \E a \in Alert : alert[a] # NoAlert /\ alert[a].last = "recent"
  /\ cooldown' = "past"
  /\ alert' = [a \in Alert |-> IF alert[a] # NoAlert /\ alert[a].last = "recent"
                               THEN [alert[a] EXCEPT !.last = "past"] ELSE alert[a]]
  /\ UNCHANGED <<alertIds, assetIds, quote, eval, awaited, requests, alertHistory, alertFaults>>

-----------------------------------------------------------------------------
(* Evaluation *)

Goes(e, pc) == eval' = [eval EXCEPT ![e].pc = pc]

\* Out of the loop, by its end or by a throw.
Ends(e) ==
  /\ eval' = [eval EXCEPT ![e] = Idle]
  /\ awaited' = IF awaited = e THEN NoAlert ELSE awaited

\* On to the next id.
Continue(e) == eval' = [eval EXCEPT ![e].pc = "next", ![e].id = NoAlert, ![e].read = NoAlert]

\* evaluateAll of a refresh cycle: some alert is listed and has its record,
\* and there is a cached price.
EvaluateAll(e) ==
  /\ awaited = NoAlert /\ eval[e].pc = "idle"
  /\ \E a \in alertIds : alert[a] # NoAlert
  /\ eval' = [eval EXCEPT ![e] = [Idle EXCEPT !.pc = "smembers", !.price = quote]]
  /\ awaited' = e
  /\ overlapped' = (overlapped \/ \E f \in Evaluation : eval[f].pc # "idle")
  /\ UNCHANGED <<stores, quote, requests, fired, twice, gone, revived, alertFaults>>

\* ALERT_EVAL_TIMEOUT_MS: the cycle goes on, the evaluation too.
EvaluationTimesOut ==
  /\ awaited # NoAlert
  /\ awaited' = NoAlert
  /\ UNCHANGED <<stores, quote, eval, requests, alertHistory, alertFaults>>

ListAsset(e) ==
  /\ eval[e].pc = "smembers"
  /\ \/ /\ eval' = [eval EXCEPT ![e].pc = "next", ![e].todo = assetIds, ![e].silent = gone]
        /\ UNCHANGED <<awaited, alertFaults>>
     \/ Ends(e) /\ AlertFault
  /\ UNCHANGED <<stores, quote, requests, alertHistory>>

isTriggered(r, price) ==
  \/ r.type = "above" /\ price = "high"
  \/ r.type = "below" /\ price = "low"
  \/ r.type = "change_pct" /\ r.baseline # "none" /\ r.baseline # price

ReadAlert(e) ==
  /\ eval[e].pc = "next"
  /\ \/ /\ eval[e].todo = {} /\ Ends(e)
        /\ UNCHANGED alertFaults
     \/ \E a \in eval[e].todo :
          LET r == alert[a]
              left == [eval[e] EXCEPT !.todo = @ \ {a}]
          IN  /\ eval' = [eval EXCEPT ![e] =
                   IF r = NoAlert \/ ~isTriggered(r, eval[e].price)
                        \/ (r.repeat /\ r.last = "recent") THEN left
                   ELSE [left EXCEPT !.id = a, !.read = r,
                                     !.pc = IF r.repeat THEN "asset" ELSE "fire"]]
              /\ UNCHANGED <<awaited, alertFaults>>
     \/ eval[e].todo # {} /\ Ends(e) /\ AlertFault
  /\ UNCHANGED <<stores, quote, requests, alertHistory>>

\* The asset-wide cooldown of repeating alerts.
ReadCooldown(e) ==
  /\ eval[e].pc = "asset"
  /\ \/ /\ IF cooldown = "recent" THEN Continue(e) ELSE Goes(e, "fire")
        /\ UNCHANGED <<awaited, alertFaults>>
     \/ Ends(e) /\ AlertFault
  /\ UNCHANGED <<stores, quote, requests, alertHistory>>

\* fire(): deliver() throws unless the receiver answers 2xx.
Fire(e) ==
  /\ eval[e].pc = "fire"
  /\ \/ /\ IF eval[e].read.repeat
           THEN Goes(e, "set") /\ UNCHANGED <<fired, twice>>
           ELSE /\ Goes(e, "get")
                /\ fired' = fired \cup {eval[e].id}
                /\ twice' = twice \cup (fired \cap {eval[e].id})
        /\ UNCHANGED awaited
     \/ Ends(e) /\ UNCHANGED <<fired, twice>>
  /\ UNCHANGED <<stores, quote, requests, gone, overlapped, revived, alertFaults>>

\* A one-shot alert is removed after it fired.
DiscardGet(e) ==
  /\ eval[e].pc = "get"
  /\ \/ /\ IF alert[eval[e].id] = NoAlert THEN Continue(e) ELSE Goes(e, "del")
        /\ UNCHANGED <<awaited, alertFaults>>
     \/ Ends(e) /\ AlertFault
  /\ UNCHANGED <<stores, quote, requests, alertHistory>>

Discard_KeepsIndex(e) ==
  /\ eval[e].pc = "del"
  /\ Continue(e)
  /\ gone' = gone \cup {eval[e].id}
  /\ alertIds' = alertIds \ {eval[e].id}
  /\ UNCHANGED <<alert, assetIds, cooldown, quote, awaited, requests, fired, twice, overlapped, revived,
                 alertFaults>>

Discard(e) ==
  /\ eval[e].pc = "del"
  /\ \/ /\ Drop(eval[e].id)
        /\ \/ Continue(e) /\ UNCHANGED <<awaited, alertFaults>>
           \/ Ends(e) /\ AlertFault
     \/ Ends(e) /\ AlertFault /\ UNCHANGED <<alert, alertIds, assetIds, gone>>
  /\ UNCHANGED <<cooldown, quote, requests, fired, twice, overlapped, revived>>

\* A repeating one is written back as it was read, with the time and baseline.
Rearm(e) ==
  LET written == [eval[e].read EXCEPT
                    !.last = "recent",
                    !.baseline = IF eval[e].read.type = "change_pct" THEN eval[e].price ELSE @]
  IN  /\ eval[e].pc = "set"
      /\ \/ /\ alert' = [alert EXCEPT ![eval[e].id] = written]
            /\ \/ Goes(e, "cool") /\ UNCHANGED <<awaited, alertFaults>>
               \/ Ends(e) /\ AlertFault
         \/ Ends(e) /\ AlertFault /\ UNCHANGED alert
      /\ UNCHANGED <<alertIds, assetIds, cooldown, quote, requests, alertHistory>>

StartCooldown(e) ==
  /\ eval[e].pc = "cool"
  /\ \/ cooldown' = "recent" /\ Continue(e) /\ UNCHANGED <<awaited, alertFaults>>
     \/ cooldown' \in {cooldown, "recent"} /\ Ends(e) /\ AlertFault
  /\ UNCHANGED <<alert, alertIds, assetIds, quote, requests, alertHistory>>

EvalStep(e) ==
  \/ ListAsset(e) \/ ReadAlert(e) \/ ReadCooldown(e) \/ Fire(e)
  \/ DiscardGet(e) \/ Discard(e) \/ Rearm(e) \/ StartCooldown(e)

AlertsNext ==
  \/ \E a \in Alert, type \in AlertType, repeat \in BOOLEAN : CreateAlert(a, type, repeat)
  \/ \E a \in Alert : RemoveGetAlert(a) \/ RemoveAlert(a)
  \/ BackfillRead \/ BackfillWrite \/ QuoteMoves \/ CooldownPasses \/ EvaluationTimesOut
  \/ \E e \in Evaluation : EvaluateAll(e) \/ EvalStep(e)

-----------------------------------------------------------------------------

\* A one-shot alert is delivered once, unless an evaluation that outlived its
\* time-out met the next one, or a command failed after the delivery.
OneShotFiresOnce ==
  overlapped \/ alertFaults > 0 \/ twice = {}

\* An alert that was removed before an evaluation listed its asset is not fired
\* by it, although an older evaluation may write its record back; only a
\* backfill that read the alert before its removal can undo that.
RemovedStaysQuiet ==
  \A e \in Evaluation : eval[e].pc = "fire" /\ eval[e].id \in eval[e].silent =>
    eval[e].id \in revived

\* An alert fires as it was armed: a one-shot once, a removed one no more
\* (fire and remove of services/alerts.js).
AlertsFireAsArmed == OneShotFiresOnce /\ RemovedStaysQuiet

=============================================================================
