----------------------------- MODULE JobRecords -----------------------------
(***************************************************************************)
(* Job records.  A job whose output is a structured record owns a Thing: a  *)
(* row with the schema of its records (jobs/records/store.py) and a virtual *)
(* Thing under which they are read (virtual_things/store.py).  Both follow  *)
(* the job's definition (jobs/resources/manager.py), each in a transaction  *)
(* of its own, and a start makes the rows that are missing.  The runs of    *)
(* the job submit the records, one for each run, however often the run is   *)
(* delivered (agent/tools/submit_job_record.py, jobs/executor.py).          *)
(*                                                                         *)
(* A schema is its version and its fields, all of them required; the data   *)
(* of a record is the set of the fields it has.  The transactions of a       *)
(* request are the steps it has still to make.                               *)
(***************************************************************************)
EXTENDS Naturals, SequencesExt

CONSTANTS Jobs, Things, None, Gone,
          Outputs,               \* outputs of definitions: a Thing or None, and a schema
          Safe,                  \* the affordance name of each field
          Data,                  \* sets of fields submitted
          Callers,               \* requests at a time
          Attempts, JobOf, Analysis, \* deliveries of runs, and the runs of analysis code
          MaxOps, MaxFaults, MaxTries, MaxLimit      \* bounds

VARIABLES jobs,       \* the output of each job's definition, None before it and Gone after
          rows,       \* VirtualRecordThing: the job and the schema of a Thing
          virtual,    \* VirtualThing: the job and the schema it was described from
          records,    \* VirtualRecord
          op,         \* per caller: what it does, for which job, the steps left, alone
          attempt,    \* per delivery of a run: where it is
          clock, epoch,          \* the time, and how often a row was deleted
          disturbed,             \* Things of requests that failed or overlapped
          ops, faults

sagaVars == <<jobs, rows, virtual, op, disturbed, ops, faults>>
recordVars == <<jobs, rows, virtual, records, op, attempt, clock, epoch, disturbed, ops, faults>>

Idle == [kind |-> "none", job |-> None, steps |-> <<>>, alone |-> TRUE]
Waiting == [phase |-> "none", thing |-> None, record |-> None, answer |-> None, tries |-> 0,
            outcome |-> None]

RecordsInit ==
    /\ jobs = [j \in Jobs |-> None]
    /\ rows = [t \in Things |-> None] /\ virtual = [t \in Things |-> None]
    /\ records = {}
    /\ op = [w \in Callers |-> Idle]
    /\ attempt = [a \in Attempts |-> Waiting]
    /\ clock = 0 /\ epoch = [t \in Things |-> 0]
    /\ disturbed = {} /\ ops = 0 /\ faults = 0

Defined(j) == jobs[j] \notin {None, Gone}
Owns(j, t) == Defined(j) /\ jobs[j].thing = t

-----------------------------------------------------------------------------
(* Requests: the steps they make, each a transaction.                      *)

Step(do, j, t, schema) == [do |-> do, job |-> j, thing |-> t, schema |-> schema]

Make(j, d) == IF d.thing = None THEN <<>>
              ELSE <<Step("row", j, d.thing, d.schema), Step("describe", j, d.thing, d.schema)>>
Unmake(j, d) == IF d.thing = None THEN <<>>
                ELSE <<Step("unrow", j, d.thing, None), Step("undescribe", j, d.thing, None)>>
Schedule(j, t) == <<Step("schedule", j, t, None)>>
Unjob(j, d) == <<Step("unjob", j, d.thing, None)>>

Touched(steps) == {s.thing : s \in Range(steps)} \ {None}
Clash(w, j, steps) ==
    {v \in Callers \ {w} : /\ op[v].steps # <<>>
                           /\ \/ j = None \/ op[v].job \in {j, None}
                              \/ Touched(op[v].steps) \cap Touched(steps) # {}}

(* A request begins; those it overlaps and the Things it shares with other  *)
(* jobs are noted.                                                          *)
Begin(w, kind, j, steps) ==
    LET with == Clash(w, j, steps)
        shares == {t \in Touched(steps) : \E i \in Jobs \ {j} : j # None /\ Owns(i, t)}
    IN /\ op[w].steps = <<>> /\ ops < MaxOps /\ ops' = ops + 1
       /\ op' = [v \in Callers |->
                    IF v = w THEN [kind |-> kind, job |-> j, steps |-> steps, alone |-> with = {}]
                    ELSE IF v \in with THEN [op[v] EXCEPT !.alone = FALSE] ELSE op[v]]
       /\ disturbed' = disturbed \cup shares
             \cup (IF with = {} THEN {}
                   ELSE Touched(steps) \cup UNION {Touched(op[v].steps) : v \in with})

Create(w, j, d) ==
    /\ jobs[j] = None
    /\ jobs' = [jobs EXCEPT ![j] = d]
    /\ Begin(w, "create", j, Make(j, d) \o Schedule(j, d.thing))
    /\ UNCHANGED <<rows, virtual, records, attempt, clock, epoch, faults>>

(* The definition replaced is read first.                                  *)
Update(w, j, d) ==
    /\ Defined(j)
    /\ Begin(w, "update", j,
             <<Step("replace", j, d.thing, d.schema)>>
             \o (IF jobs[j].thing = d.thing THEN <<>> ELSE Unmake(j, jobs[j]))
             \o Make(j, d) \o Schedule(j, None))
    /\ UNCHANGED <<jobs, rows, virtual, records, attempt, clock, epoch, faults>>

Delete(w, j) ==
    /\ Defined(j)
    /\ Begin(w, "delete", j, Unmake(j, jobs[j]) \o Unjob(j, jobs[j]))
    /\ UNCHANGED <<jobs, rows, virtual, records, attempt, clock, epoch, faults>>

(* A process that starts looks at the jobs it listed, one by one.          *)
Sync(w) ==
    /\ \E order \in SetToSeqs({j \in Jobs : Defined(j) /\ jobs[j].thing # None}) :
          Begin(w, "sync", None,
                [n \in DOMAIN order |->
                    Step("check", order[n], jobs[order[n]].thing, jobs[order[n]].schema)])
    /\ UNCHANGED <<jobs, rows, virtual, records, attempt, clock, epoch, faults>>

-----------------------------------------------------------------------------
(* The steps.                                                              *)

Doing(w, do) == op[w].steps # <<>> /\ Head(op[w].steps).do = do
Continue(w, steps) == op' = [op EXCEPT ![w].steps = steps]

(* One that fails ends the request, but a creation is undone, what remains  *)
(* of an undoing is done, and a start goes on with the next job.            *)
Abandon(w) ==
    LET steps == op[w].steps
        s == Head(steps)
    IN CASE op[w].kind = "create" ->
              /\ op' = [op EXCEPT ![w].kind = "undo", ![w].steps = Unmake(s.job, s) \o Unjob(s.job, s)]
              /\ UNCHANGED disturbed
         [] op[w].kind = "undo" /\ s.do # "unjob" ->
              /\ Continue(w, <<Last(steps)>>)
              /\ disturbed' = disturbed \cup Touched(steps)
         [] op[w].kind = "sync" ->
              /\ Continue(w, SelectSeq(Tail(steps), LAMBDA x : x.do = "check"))
              /\ disturbed' = disturbed \cup {s.thing}
         [] OTHER ->
              /\ Continue(w, <<>>)
              /\ disturbed' = disturbed \cup Touched(steps)

Fail(w) ==
    /\ op[w].steps # <<>> /\ faults < MaxFaults /\ faults' = faults + 1
    /\ Abandon(w)
    /\ UNCHANGED <<jobs, rows, virtual, records, attempt, clock, epoch, ops>>

Crash(w) ==
    /\ op[w].steps # <<>> /\ faults < MaxFaults /\ faults' = faults + 1
    /\ Continue(w, <<>>)
    /\ disturbed' = disturbed \cup Touched(op[w].steps)
    /\ UNCHANGED <<jobs, rows, virtual, records, attempt, clock, epoch, ops>>

Replace(w) ==
    LET s == Head(op[w].steps) IN
    /\ Doing(w, "replace")
    /\ IF Defined(s.job)
       THEN /\ jobs' = [jobs EXCEPT ![s.job] = [thing |-> s.thing, schema |-> s.schema]]
            /\ Continue(w, Tail(op[w].steps))
            /\ UNCHANGED disturbed
       ELSE Abandon(w) /\ UNCHANGED jobs
    /\ UNCHANGED <<rows, virtual, records, attempt, clock, epoch, ops, faults>>

(* The row refers to the job.                                              *)
PutRow(w) ==
    LET s == Head(op[w].steps) IN
    /\ Doing(w, "row")
    /\ IF Defined(s.job)
       THEN /\ rows' = [rows EXCEPT ![s.thing] = [job |-> s.job, schema |-> s.schema]]
            /\ Continue(w, Tail(op[w].steps))
            /\ UNCHANGED disturbed
       ELSE Abandon(w) /\ UNCHANGED rows
    /\ UNCHANGED <<jobs, virtual, records, attempt, clock, epoch, ops, faults>>

(* Both are made anew by a request no other overlapped.                    *)
Describe(w) ==
    LET s == Head(op[w].steps) IN
    /\ Doing(w, "describe")
    /\ virtual' = [virtual EXCEPT ![s.thing] = [job |-> s.job, schema |-> s.schema]]
    /\ Continue(w, Tail(op[w].steps))
    /\ disturbed' = IF op[w].alone /\ \A i \in Jobs \ {s.job} : ~Owns(i, s.thing)
                    THEN disturbed \ {s.thing} ELSE disturbed
    /\ UNCHANGED <<jobs, rows, records, attempt, clock, epoch, ops, faults>>

Drop(ts, kept) ==
    /\ rows' = [t \in Things |-> IF t \in ts THEN None ELSE rows[t]]
    /\ records' = {r \in kept : r.thing \notin ts}
    /\ epoch' = [t \in Things |-> IF \E r \in records \ records' : r.thing = t
                                  THEN epoch[t] + 1 ELSE epoch[t]]

DropRow(w) ==
    /\ Doing(w, "unrow")
    /\ Drop({Head(op[w].steps).thing}, records)
    /\ Continue(w, Tail(op[w].steps))
    /\ UNCHANGED <<jobs, virtual, attempt, clock, disturbed, ops, faults>>

Undescribe(w) ==
    /\ Doing(w, "undescribe")
    /\ virtual' = [virtual EXCEPT ![Head(op[w].steps).thing] = None]
    /\ Continue(w, Tail(op[w].steps))
    /\ UNCHANGED <<jobs, rows, records, attempt, clock, epoch, disturbed, ops, faults>>

(* The rows and the records of the job go with it.                         *)
DropJob(w) ==
    LET j == Head(op[w].steps).job IN
    /\ Doing(w, "unjob")
    /\ jobs' = [jobs EXCEPT ![j] = Gone]
    /\ Drop({t \in Things : rows[t] # None /\ rows[t].job = j},
            {r \in records : JobOf[r.run] # j})
    /\ Continue(w, Tail(op[w].steps))
    /\ UNCHANGED <<virtual, attempt, clock, disturbed, ops, faults>>

AddSchedule(w) ==
    /\ Doing(w, "schedule")
    /\ Continue(w, Tail(op[w].steps))
    /\ UNCHANGED <<jobs, rows, virtual, records, attempt, clock, epoch, disturbed, ops, faults>>

(* Only the row is looked for.                                             *)
Check(w) ==
    LET s == Head(op[w].steps) IN
    /\ Doing(w, "check")
    /\ Continue(w, (IF rows[s.thing] = None THEN Make(s.job, s) ELSE <<>>) \o Tail(op[w].steps))
    /\ UNCHANGED <<jobs, rows, virtual, records, attempt, clock, epoch, disturbed, ops, faults>>

-----------------------------------------------------------------------------
(* Runs.                                                                   *)

FieldNames(schema) == {f.name : f \in Range(schema.fields)}
Valid(schema, data) == FieldNames(schema) \subseteq data

Deliver(a) ==
    LET j == JobOf[a[1]] IN
    /\ attempt[a].phase = "none"
    /\ \A b \in Attempts : b[1] = a[1] /\ b[2] < a[2] => attempt[b].phase # "none"
    /\ Defined(j) /\ jobs[j].thing # None
    /\ attempt' = [attempt EXCEPT ![a].phase = "running", ![a].thing = jobs[j].thing]
    /\ UNCHANGED <<sagaVars, records, clock, epoch>>

StoredOf(t, run) == {r \in records : r.thing = t /\ r.run = run}
Answered(a, r) == attempt' = [attempt EXCEPT ![a].phase = "running", ![a].tries = @ + 1,
                                  ![a].record = None, ![a].outcome = "ok",
                                  ![a].answer = [record |-> r, epoch |-> epoch[r.thing]]]
Refused(a, why) == attempt' = [attempt EXCEPT ![a].phase = "running", ![a].tries = @ + 1,
                                  ![a].record = None, ![a].outcome = why]

(* The data is checked, then the record of the run looked for.             *)
Submit(a, data) ==
    LET t == attempt[a].thing IN
    /\ attempt[a].phase = "running"
    /\ attempt[a].tries < IF a[1] \in Analysis THEN 1 ELSE MaxTries
    /\ clock' = clock + 1
    /\ IF rows[t] = None THEN Refused(a, "error")
       ELSE IF ~Valid(rows[t].schema, data) THEN Refused(a, "repair")
       ELSE IF StoredOf(t, a[1]) # {} THEN Answered(a, CHOOSE r \in StoredOf(t, a[1]) : TRUE)
       ELSE attempt' = [attempt EXCEPT ![a].phase = "inserting",
                            ![a].record = [thing |-> t, run |-> a[1], schema |-> rows[t].schema,
                                           data |-> data, time |-> clock']]
    /\ UNCHANGED <<sagaVars, records, epoch>>

(* One record for a Thing and a run, whose job and Thing exist.            *)
Insert(a) ==
    LET r == attempt[a].record IN
    /\ attempt[a].phase = "inserting"
    /\ IF rows[r.thing] # None /\ Defined(JobOf[r.run]) /\ StoredOf(r.thing, r.run) = {}
       THEN records' = records \cup {r} /\ Answered(a, r)
       ELSE Refused(a, "error") /\ UNCHANGED records
    /\ UNCHANGED <<sagaVars, clock, epoch>>

(* The last submission decides: a prompt run needs one that was stored, or  *)
(* asks for a repair; analysis code may store one record or none, and fails  *)
(* with it.                                                                  *)
End(a) ==
    /\ attempt[a].phase = "running"
    /\ attempt' = [attempt EXCEPT ![a].phase =
          IF attempt[a].outcome = "ok" \/ (a[1] \in Analysis /\ attempt[a].outcome = None)
          THEN "succeeded"
          ELSE IF attempt[a].outcome = "repair" /\ a[1] \notin Analysis THEN "waiting" ELSE "failed"]
    /\ UNCHANGED <<sagaVars, records, clock, epoch>>

(* Code that stores two records stores none.                               *)
StoreTwice(a) ==
    /\ attempt[a].phase = "running" /\ a[1] \in Analysis /\ attempt[a].tries = 0
    /\ attempt' = [attempt EXCEPT ![a].phase = "failed"]
    /\ UNCHANGED <<sagaVars, records, clock, epoch>>

-----------------------------------------------------------------------------
Request(w) ==
    \/ \E j \in Jobs : (\E d \in Outputs : Create(w, j, d) \/ Update(w, j, d)) \/ Delete(w, j)
    \/ Sync(w)

Work(w) ==
    \/ Fail(w) \/ Crash(w) \/ Replace(w) \/ PutRow(w) \/ Describe(w) \/ DropRow(w)
    \/ Undescribe(w) \/ DropJob(w) \/ AddSchedule(w) \/ Check(w)

Running(a) == Deliver(a) \/ (\E data \in Data : Submit(a, data)) \/ Insert(a) \/ StoreTwice(a) \/ End(a)

RecordsNext ==
    \/ \E w \in Callers : Request(w) \/ Work(w)
    \/ \E a \in Attempts : Running(a)

RecordsSpec == RecordsInit /\ [][RecordsNext]_recordVars

-----------------------------------------------------------------------------
(* Readers.                                                                *)

Scalars(schema) == SelectSeq(schema.fields, LAMBDA f : f.scalar)
Described(schema) == {Safe[f.name] : f \in Range(Scalars(schema))}
(* The Thing Description has the last scalar field of a name, the read the  *)
(* first field.                                                             *)
DescribedField(schema, p) == Last(SelectSeq(Scalars(schema), LAMBDA f : Safe[f.name] = p)).name
ReadField(schema, p) == Head(SelectSeq(schema.fields, LAMBDA f : Safe[f.name] = p)).name

Of(t) == {r \in records : r.thing = t}
Latest(t) == CHOOSE r \in Of(t) : \A s \in Of(t) : s.time <= r.time
ByTime(t) == SetToSortSeq(Of(t), LAMBDA r, s : r.time < s.time)
History(t, field, limit) ==
    SelectSeq(SubSeq(ByTime(t), 1, IF limit < Len(ByTime(t)) THEN limit ELSE Len(ByTime(t))),
              LAMBDA r : field \in r.data)

-----------------------------------------------------------------------------
(* A Thing whose requests were undisturbed has its row and its description  *)
(* of the one job that outputs to it, and one of no job has neither           *)
(* (create_or_update_thing, delete_thing, sync_record_things).               *)
Settled(t) == t \notin disturbed /\ \A w \in Callers : t \notin Touched(op[w].steps)
ThingsFollowJobs ==
    \A t \in Things : Settled(t) =>
        \/ /\ \A j \in Jobs : ~Owns(j, t)
           /\ rows[t] = None /\ virtual[t] = None
        \/ \E j \in Jobs : /\ {i \in Jobs : Owns(i, t)} = {j}
                           /\ rows[t] = [job |-> j, schema |-> jobs[j].schema]
                           /\ virtual[t] = rows[t]

(* What a run was told is stored stays stored until the Thing or the job is *)
(* deleted; its deliveries are told of one record; and a prompt run that     *)
(* succeeded was told of one (submit_record, job_result_from_graph_result).  *)
Told == {a \in Attempts : attempt[a].answer # None}
AnswersKept ==
    /\ \A a \in Told : LET n == attempt[a].answer
                       IN n.epoch = epoch[n.record.thing] => n.record \in records
    /\ \A a, b \in Told : LET n == attempt[a].answer
                              m == attempt[b].answer
                          IN /\ a[1] = b[1] /\ n.record.thing = m.record.thing
                             /\ n.epoch = m.epoch
                             => n.record = m.record
    /\ \A a \in Attempts : attempt[a].phase = "succeeded" /\ a[1] \notin Analysis => a \in Told

(* A property described is read from the field it was described from,       *)
(* unless two fields have its name, and the history of a field that is not   *)
(* cut ends with the latest record, if that has it (read_property,           *)
(* query_property_history).                                                  *)
OneName(schema, p) == \A f, g \in Range(schema.fields) :
                          Safe[f.name] = p /\ Safe[g.name] = p => f = g
ReadsAsDescribed ==
    \A t \in Things : Settled(t) /\ virtual[t] # None =>
        \A p \in Described(virtual[t].schema) :
            LET field == ReadField(rows[t].schema, p)
                history == History(t, field, MaxLimit)
            IN /\ OneName(virtual[t].schema, p) =>
                     field = DescribedField(virtual[t].schema, p)
               /\ Of(t) # {} /\ Len(ByTime(t)) <= MaxLimit /\ field \in Latest(t).data =>
                     Last(history) = Latest(t)

(* A record is valid for the schema it is kept with.                       *)
RecordsValid == \A r \in records : Valid(r.schema, r.data)

RecordsSound == ThingsFollowJobs /\ AnswersKept /\ ReadsAsDescribed /\ RecordsValid
=============================================================================
