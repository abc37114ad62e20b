------------------------------ MODULE Schedule ------------------------------
(* The timing rules every component shares: what a schedule config's trigger *)
(* may be, when it runs next and when the dispatcher finds it due.           *)
(*                                                                           *)
(* Time is counted in seconds from an arbitrary origin. A cron expression is *)
(* the period p of the instants it matches (the multiples of p): what        *)
(* croniter's get_next promises, the next match strictly after now, is kept, *)
(* its syntax is not. Null is Python's None and SQL's NULL.                  *)
EXTENDS Integers

CONSTANT Null

ASSUME NullAssumption == Null \notin Int

Trigger == [cron : (Nat \ {0}) \cup {Null}, interval : Int \cup {Null}]

\* Python's truth test `if interval_seconds`: None and 0 both fail it.
Falsy(x) == x = Null \/ x = 0

\* calc_next_run succeeds; otherwise it raises ValueError.
CanCalc(tr) == tr.cron # Null \/ ~Falsy(tr.interval)

\* calc_next_run, for a trigger it does not raise on.
CalcNextRun(tr, now) ==
  IF tr.cron # Null THEN ((now \div tr.cron) + 1) * tr.cron
                    ELSE now + tr.interval

\* ScheduleConfigService._calc_next_run: None where calc_next_run would raise.
ServiceNextRun(tr, now) == IF CanCalc(tr) THEN CalcNextRun(tr, now) ELSE Null

\* ScheduleConfigBase.validate_trigger (Create, Put and Read): exactly one set.
ValidTrigger(tr) == (tr.cron = Null) # (tr.interval = Null)

\* ScheduleConfigPatch.validate_trigger sees only the fields of the patch.
ValidPatch(p) ==
  ~(/\ "cron" \in DOMAIN p /\ p.cron # Null
    /\ "interval" \in DOMAIN p /\ p.interval # Null)

\* The row ScheduleConfigService.create inserts for a validated body.
CreateRow(body, now) ==
  [cron |-> body.cron, interval |-> body.interval, enabled |-> body.enabled,
   start |-> body.start, end |-> body.end,
   next |-> ServiceNextRun(body, now), last |-> Null]

\* The columns of a row that an API body sets. A Put carries them all, a Patch
\* only those the client sent (model_dump(exclude_unset=True)).
Fields == {"cron", "interval", "enabled", "start", "end"}

\* Seeded fault: a change of trigger leaves next_run_at as it was.
UpdateRowKeepsNext(row, seen, body, now) ==
  [f \in DOMAIN row |-> IF f \in DOMAIN body THEN body[f] ELSE row[f]]

\* ScheduleConfigService.put and .patch: body is a function on a subset of
\* Fields, `seen` the row get_by_pk returned, `row` the one the UPDATE meets.
\* The next run is computed again only when the body changes the trigger it
\* saw, and the ORM writes the columns whose value is not the one it read.
UpdateRow(row, seen, body, now) ==
  LET asked   == [f \in DOMAIN seen |->
                    IF f \in DOMAIN body THEN body[f] ELSE seen[f]]
      changed == asked.cron # seen.cron \/ asked.interval # seen.interval
      new     == IF changed
                 THEN [asked EXCEPT !.next = ServiceNextRun(asked, now)]
                 ELSE asked
  IN  [f \in DOMAIN row |-> IF new[f] # seen[f] THEN new[f] ELSE row[f]]

\* The WHERE clause of get_schedule_configs.
IsDue(row, now) ==
  /\ row.enabled
  /\ row.next = Null \/ row.next <= now
  /\ row.start = Null \/ row.start <= now
  /\ row.end = Null \/ row.end >= now

\* A selected row on which the tick raises: ScheduleConfigRead.model_validate
\* runs validate_trigger again, and calc_next_run needs a trigger.
Poison(row) == ~ValidTrigger(row) \/ ~CanCalc(row)
=============================================================================
