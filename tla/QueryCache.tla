----------------------------- MODULE QueryCache -----------------------------
(***************************************************************************)
(* The entries of the frontend's query cache (TanStack Query 5, a library  *)
(* the hooks under addon/frontend/src/hooks call): what one call does to   *)
(* one entry.  An entry holds the last data (None: never loaded), whether  *)
(* the last fetch failed, whether the data is marked as out of date, the   *)
(* fetch in flight and the state a cancelled fetch goes back to.           *)
(*                                                                         *)
(* A fetch is Idle, Sent, or the pair <<"read", v>> once the server has    *)
(* computed the answer v that is on its way.                               *)
(***************************************************************************)
CONSTANT None

Idle == <<"idle">>
Sent == <<"sent">>
Read(v) == <<"read", v>>

Past(Value) == [data : Value \cup {None}, error : BOOLEAN, invalid : BOOLEAN]
Entry(Value) ==
    [data : Value \cup {None}, error : BOOLEAN, invalid : BOOLEAN,
     fetch : {Idle, Sent} \cup {Read(v) : v \in Value}, back : Past(Value)]

PastOf(e) == [data |-> e.data, error |-> e.error, invalid |-> e.invalid]
Nothing == [data |-> None, error |-> FALSE, invalid |-> FALSE]
Empty == [data |-> None, error |-> FALSE, invalid |-> FALSE, fetch |-> Idle, back |-> Nothing]

Fetching(e) == e.fetch # Idle
Loaded(e) == e.data # None
\* Nothing in the entry says that its data might be out of date.
Settled(e) == Loaded(e) /\ ~Fetching(e) /\ ~e.error /\ ~e.invalid

StopFetch(e) == [e EXCEPT !.fetch = Idle, !.back = Nothing]
\* A fetch of what was never loaded forgets an earlier failure.
Begin(e) == [e EXCEPT !.fetch = Sent, !.back = PastOf(e), !.error = @ /\ Loaded(e)]
\* Mounting, the interval and window focus fetch unless a fetch is in flight.
Start(e) == IF Fetching(e) THEN e ELSE Begin(e)
\* refetch() and invalidation start afresh, except while the very first load
\* is in flight: that one is joined, not restarted.
Restart(e) == IF Fetching(e) /\ ~Loaded(e) THEN e ELSE Begin(e)
\* invalidateQueries: marked, and fetched again while a component uses it.
Invalidate(e, active) == LET f == [e EXCEPT !.invalid = TRUE] IN IF active THEN Restart(f) ELSE f
\* cancelQueries: the answer is dropped and the state before the fetch is back.
Cancel(e) ==
    IF Fetching(e)
    THEN [data |-> e.back.data, error |-> e.back.error, invalid |-> e.back.invalid,
          fetch |-> Idle, back |-> Nothing]
    ELSE e
\* setQueryData; undefined changes nothing.
SetData(e, v) == IF v = None THEN e ELSE [e EXCEPT !.data = v, !.error = FALSE, !.invalid = FALSE]

Answered(e, v) == SetData(StopFetch(e), v)
\* The retries are used up: the data stays and is marked as out of date.
Failed(e) == [StopFetch(e) EXCEPT !.error = TRUE, !.invalid = TRUE]
=============================================================================
