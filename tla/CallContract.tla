---------------------------- MODULE CallContract ----------------------------
(***************************************************************************)
(* What AsyncStdioBus promises the callers of request() and                *)
(* stream_request(), with no table, queue, future or backend: a call is    *)
(* begun or refused, a stream shows its consumer chunks in the order the   *)
(* agent wrote them and no chunk another stream showed, and a call ends    *)
(* once, for good; a dict result carries an unbroken run of the chunks,    *)
(* for a stream the ones it showed.                                        *)
(***************************************************************************)
EXTENDS Naturals, Sequences

CONSTANTS FutureCalls, StreamCalls, MaxChunks

Calls == FutureCalls \cup StreamCalls

VARIABLES phase, seen, ending

cvars == <<phase, seen, ending>>

Chunks == 1..MaxChunks
Run(n, k) == [i \in 1..n |-> k + i]
Runs == {Run(n, k) : n \in 0..MaxChunks, k \in 0..MaxChunks}

Init ==
  /\ phase = [r \in Calls |-> "idle"]
  /\ seen = [r \in StreamCalls |-> <<>>]
  /\ ending = [r \in Calls |-> [kind |-> "none", text |-> <<>>]]

EndWith(r, kind, text) ==
  /\ phase' = [phase EXCEPT ![r] = "ended"]
  /\ ending' = [ending EXCEPT ![r] = [kind |-> kind, text |-> text]]
  /\ UNCHANGED seen

Begin(r) ==
  /\ phase[r] = "idle"
  /\ phase' = [phase EXCEPT ![r] = "active"]
  /\ UNCHANGED <<seen, ending>>

Refuse(r) ==
  /\ phase[r] = "idle"
  /\ \E kind \in {"refused", "transport", "valueerror"} : EndWith(r, kind, <<>>)

\* Chunk k follows what r showed, and no other stream showed it.
Fresh(r, k) ==
  /\ seen[r] # <<>> => k = seen[r][Len(seen[r])] + 1
  /\ \A s \in StreamCalls \ {r} : \A i \in 1..Len(seen[s]) : seen[s][i] # k

Show(r) ==
  /\ r \in StreamCalls
  /\ phase[r] = "active"
  /\ \E k \in Chunks :
       /\ Fresh(r, k)
       /\ seen' = [seen EXCEPT ![r] = Append(@, k)]
  /\ UNCHANGED <<phase, ending>>

Finish(r) ==
  /\ phase[r] = "active"
  /\ \/ \E kind \in {"plain", "rpc", "transport", "timeout", "cancelled"} :
          EndWith(r, kind, <<>>)
     \/ r \in StreamCalls /\ EndWith(r, "result", seen[r])
     \/ r \in FutureCalls /\ \E text \in Runs : EndWith(r, "result", text)

Next == \E r \in Calls : Begin(r) \/ Refuse(r) \/ Show(r) \/ Finish(r)

Spec == Init /\ [][Next]_cvars
=============================================================================
