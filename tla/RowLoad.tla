------------------------------- MODULE RowLoad -------------------------------
(***************************************************************************)
(* What COPY FROM promises, whatever the batch size and however the        *)
(* sources are opened: the table grows by runs of the loadable rows, in    *)
(* order and without a gap, until the load completes or fails.             *)
(***************************************************************************)
EXTENDS Naturals, Sequences

CONSTANT BatchRows   \* how many rows a step may add at most

VARIABLES
  job,      \* the statement: its sources and whether it ignores errors
  loaded,   \* the rows the table has received
  status    \* loading, complete or failed

Kind(r) == job.sources[r[1]].items[r[2]]
Before(r, s) == r[1] < s[1] \/ (r[1] = s[1] /\ r[2] < s[2])

\* The rows a load may bring in: those that fit, of the sources that can be
\* read, none of them behind a truncated source.
Loadable ==
  {r \in UNION {{f} \X (1 .. Len(job.sources[f].items)) : f \in 1 .. Len(job.sources)} :
     /\ job.sources[r[1]].opens
     /\ Kind(r) = "good"
     /\ \A g \in 1 .. r[1] - 1 : ~(job.sources[g].opens /\ job.sources[g].torn)}

RowSet(s) == {s[k] : k \in 1 .. Len(s)}

\* Anything a load that does not ignore errors must not accept.
Defective ==
  \E f \in 1 .. Len(job.sources) :
    LET src == job.sources[f]
    IN  ~src.opens \/ src.torn \/ \E k \in 1 .. Len(src.items) : src.items[k] # "good"

Refused == ~job.resolves \/ job.sources = <<>>

Init == loaded = <<>> /\ status = "loading"

\* One batch: the next loadable rows, in order, none left out.
LoadRun ==
  /\ status = "loading" /\ status' = "loading" /\ job' = job
  /\ Len(loaded') \in Len(loaded) .. Len(loaded) + BatchRows
  /\ \A k \in 1 .. Len(loaded) : loaded'[k] = loaded[k]
  /\ \A k \in Len(loaded) + 1 .. Len(loaded') :
       /\ loaded'[k] \in Loadable
       /\ \A j \in 1 .. k - 1 : Before(loaded'[j], loaded'[k])
       /\ \A r \in Loadable : Before(r, loaded'[k]) => r \in RowSet(loaded')

\* The whole stream is in; a load that ignores errors may instead stop at a
\* source that cannot be read.
Complete ==
  /\ status = "loading" /\ status' = "complete"
  /\ ~Refused
  /\ job.ignoreErrors \/ ~Defective
  /\ \/ RowSet(loaded) = Loadable
     \/ \E f \in 1 .. Len(job.sources) :
          ~job.sources[f].opens /\ RowSet(loaded) = {r \in Loadable : r[1] < f}
  /\ UNCHANGED <<job, loaded>>

Fail ==
  /\ status = "loading" /\ status' = "failed"
  /\ Refused \/ (~job.ignoreErrors /\ Defective)
  /\ UNCHANGED <<job, loaded>>

Next == LoadRun \/ Complete \/ Fail

Spec == Init /\ [][Next]_<<job, loaded, status>>
=============================================================================
