------------------------- MODULE RotatingFileHandler -------------------------
(***************************************************************************)
(* RotatingFileHandler (handler/rotating_file_handler.py): one file for    *)
(* each date, chosen by the date of the record, and a sweep of the         *)
(* directory whenever the handler turns to another date.                   *)
(*                                                                         *)
(* Deciding to rotate, rotating, writing and sweeping happen under one     *)
(* lock, so a write is one step here, and records of any date may come in  *)
(* any order: threads that log around midnight, records replayed from      *)
(* earlier days.  A batch is written group by group, other threads write   *)
(* between.  Several handlers may share the directory, and the pattern of  *)
(* one may match the files of another: "app-*.log" matches those of        *)
(* "app-debug.log".                                                        *)
(***************************************************************************)
EXTENDS Naturals, Sequences, FiniteSets

CONSTANTS Rotators,      \* the handlers
          Dates,         \* numbers, a later date is higher
          Rotations      \* the setups

\* A setup says which handlers there are, how many files are kept, whose files a handler's pattern
\* matches, whether opening and writing may fail, what the directory holds at
\* the start, which batches come, and how many writes, closes and restarts.
RotatingAssumption ==
    /\ Dates \subseteq Nat \ {0}
    /\ \A s \in Rotations :
           /\ s.handlers \subseteq Rotators /\ s.maxFiles \in Nat /\ s.frail \in BOOLEAN
           /\ s.matching \in [Rotators -> SUBSET Rotators] /\ \A h \in Rotators : h \in s.matching[h]
           /\ s.leftover \subseteq Rotators \X Dates /\ IsFiniteSet(s.leftover)
           /\ s.batches \subseteq Seq(Dates)
           /\ s.writes \in Nat /\ s.closes \in Nat

VARIABLES
    rotation,   \* the setup
    current,    \* current[h]: _current_date, 0 for None
    stream,     \* stream[h]: "closed", "open", or "unlinked" when its file was deleted
    directory,  \* what the files there hold: a function from <<handler, date>>
    batch,      \* batch[h]: the records of a batch that are still to be written
    written,    \* history: the records that were written without an exception
    dated,      \* history: dated[h]: the dates it ever had a file for
    came,       \* history: how many records came
    closes

rotVars == <<rotation, current, stream, directory, batch, written, dated, came, closes>>

NoDate == 0

-----------------------------------------------------------------------------
(* _collect() *)

\* Newest by the date in the name; a date that cannot be read counts as
\* oldest, as that of another handler's file.
Dated(h, f) == IF f[1] = h THEN f[2] ELSE NoDate

Newer(h, f, g) ==
    Dated(h, f) > Dated(h, g) \/ (Dated(h, f) = Dated(h, g) /\ f[2] > g[2])

\* A slip: sorted the other way round.
Backwards(h, f, g) == Newer(h, g, f)

\* A slip: nothing is deleted.
NothingStale(h, files) == {}

Stale(h, files) ==
    LET matches == {f \in files : f[1] \in rotation.matching[h]}
    IN  {f \in matches : Cardinality({g \in matches : Newer(h, g, f)}) >= rotation.maxFiles}

Collect(h, dir) ==
    LET swept == IF rotation.maxFiles = 0 THEN {} ELSE Stale(h, DOMAIN dir)
    IN  [f \in DOMAIN dir \ swept |-> dir[f]]

-----------------------------------------------------------------------------
(* write() and handle_batch() *)

\* A slip: a batch is written as one.
AsOne(rs) == rs

\* _batches(): split where the date changes; the first of the parts.
FirstPart(rs) ==
    LET others == {i \in DOMAIN rs : rs[i].date # rs[1].date}
    IN  IF others = {} THEN rs
        ELSE SubSeq(rs, 1, (CHOOSE i \in others : \A j \in others : i <= j) - 1)

Opened(dir, f) == [g \in DOMAIN dir \cup {f} |-> IF g \in DOMAIN dir THEN dir[g] ELSE <<>>]

\* A slip: nobody notices.
StaysOpen(str, cur, dir) == str

\* A file that is deleted while a handler has it open takes what is written to
\* it with it.
Unlinked(str, cur, dir) ==
    [k \in Rotators |->
        IF str[k] = "open" /\ <<k, cur[k]>> \notin DOMAIN dir THEN "unlinked" ELSE str[k]]

\* One group of records, the file chosen by the last one.  how: "done", or
\* that the file does not "open" or the records are not "written": then none of them.
Write(h, rs, how) ==
    LET date     == rs[Len(rs)].date
        f        == <<h, date>>
        rotating == date # current[h]
        before   == IF rotating THEN "closed" ELSE stream[h]
        opening  == before = "closed"
        holding  == IF opening THEN Opened(directory, f) ELSE directory
        linked   == before # "unlinked"
        after    == IF how = "done" /\ linked THEN [holding EXCEPT ![f] = @ \o rs] ELSE holding
        swept    == IF how = "done" /\ rotating THEN Collect(h, after) ELSE after
        cur      == [current EXCEPT ![h] = date]
    IN  /\ how = "open" => opening
        /\ current' = cur
        /\ IF how = "open"
           THEN /\ stream' = [stream EXCEPT ![h] = "closed"]
                /\ UNCHANGED <<directory, dated>>
           ELSE /\ directory' = swept
                /\ stream' = Unlinked([stream EXCEPT ![h] = IF linked THEN "open" ELSE "unlinked"],
                                      cur, swept)
                /\ dated' = [dated EXCEPT ![h] = IF opening THEN @ \cup {date} ELSE @]
        /\ written' = IF how = "done" THEN written \o rs ELSE written

Ways == IF rotation.frail THEN {"done", "open", "written"} ELSE {"done"}

Stamp(h, ds) == [i \in DOMAIN ds |-> [by |-> h, n |-> came + i, date |-> ds[i]]]

\* handle(): a record of any date.
Handle(h, date) ==
    /\ came < rotation.writes
    /\ came' = came + 1
    /\ \E how \in Ways : Write(h, Stamp(h, <<date>>), how)
    /\ UNCHANGED <<rotation, batch, closes>>

HandleBatch(h, ds) ==
    /\ batch[h] = <<>>
    /\ came + Len(ds) <= rotation.writes
    /\ came' = came + Len(ds)
    /\ batch' = [batch EXCEPT ![h] = Stamp(h, ds)]
    /\ UNCHANGED <<rotation, current, stream, directory, written, dated, closes>>

\* One part of it, which may be written while others are; an exception ends the batch.
WriteGroup(h) ==
    LET part == FirstPart(batch[h])
    IN  /\ batch[h] # <<>>
        /\ \E how \in Ways :
               /\ Write(h, part, how)
               /\ batch' = [batch EXCEPT ![h] =
                                IF how = "done" THEN SubSeq(@, Len(part) + 1, Len(@)) ELSE <<>>]
        /\ UNCHANGED <<rotation, came, closes>>

-----------------------------------------------------------------------------
(* close(), and a process that ends and starts anew. *)

Close(h) ==
    /\ closes < rotation.closes
    /\ closes' = closes + 1
    /\ stream' = [stream EXCEPT ![h] = "closed"]
    /\ UNCHANGED <<rotation, current, directory, batch, written, dated, came>>

Restart ==
    /\ closes < rotation.closes
    /\ closes' = closes + 1
    /\ current' = [h \in Rotators |-> NoDate]
    /\ stream' = [h \in Rotators |-> "closed"]
    /\ batch' = [h \in Rotators |-> <<>>]
    /\ UNCHANGED <<rotation, directory, written, dated, came>>

Init ==
    /\ rotation \in Rotations
    /\ current = [h \in Rotators |-> NoDate]
    /\ stream = [h \in Rotators |-> "closed"]
    /\ directory = [f \in rotation.leftover |-> <<>>]
    /\ batch = [h \in Rotators |-> <<>>]
    /\ written = <<>> /\ came = 0 /\ closes = 0
    /\ dated = [h \in Rotators |-> {d \in Dates : <<h, d>> \in rotation.leftover}]

Next ==
    \/ \E h \in rotation.handlers :
           \/ \E d \in Dates : Handle(h, d)
           \/ \E ds \in rotation.batches : HandleBatch(h, ds)
           \/ WriteGroup(h)
           \/ Close(h)
    \/ Restart

Spec == Init /\ [][Next]_rotVars
-----------------------------------------------------------------------------
(* Properties *)

Sighted == [by : Rotators, n : Nat, date : Dates]

TypeOK ==
    /\ rotation \in Rotations
    /\ current \in [Rotators -> Dates \cup {NoDate}]
    /\ stream \in [Rotators -> {"closed", "open", "unlinked"}]
    /\ DOMAIN directory \subseteq Rotators \X Dates
    /\ \A f \in DOMAIN directory : directory[f] \in Seq(Sighted)
    /\ \A h \in Rotators : batch[h] \in Seq(Sighted) /\ dated[h] \subseteq Dates
    /\ written \in Seq(Sighted)
    /\ \A h \in Rotators : stream[h] = "open" => <<h, current[h]>> \in DOMAIN directory

\* Each record is in the file of its date, whatever threads and batches
\* turned the handler to another date before.
OwnDate ==
    \A f \in DOMAIN directory : \A i \in DOMAIN directory[f] :
        directory[f][i].by = f[1] /\ directory[f][i].date = f[2]

\* In a directory, record r is in the file of its date.
InItsFile(r, dir) ==
    LET f == <<r.by, r.date>> IN f \in DOMAIN dir /\ \E i \in DOMAIN dir[f] : dir[f][i] = r

\* Nobody else's pattern matches the files of a handler.
Alone(h) == \A k \in Rotators \ {h} : h \notin rotation.matching[k]

\* What was written for one of the newest dates is still there: no order of
\* writes, closes, restarts and failures makes the sweep delete a file that
\* is among the newest the handler ever had.
NewestSurvive ==
    \A i \in DOMAIN written :
        LET r == written[i]
        IN  Alone(r.by) /\ (rotation.maxFiles = 0
                            \/ Cardinality({d \in dated[r.by] : d > r.date}) < rotation.maxFiles)
            => InItsFile(r, directory)

\* However often a handler turns back to files it has already deleted, no
\* more than one file stays beyond those that are kept.
FewFiles ==
    rotation.maxFiles > 0 /\ ~rotation.frail =>
        \A h \in Rotators : current[h] # NoDate =>
            Cardinality({f \in DOMAIN directory : f[1] = h}) <= rotation.maxFiles + 1

\* A record that was written is in the file of its date when write() returns,
\* replayed from an earlier day or not.
ReplayLands ==
    [][Len(written') > Len(written) => InItsFile(written'[Len(written')], directory')]_rotVars
=============================================================================
