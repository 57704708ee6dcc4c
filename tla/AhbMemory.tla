----------------------------- MODULE AhbMemory -----------------------------
(* What an AHB manager may assume of a memory on its bus, whatever buffers  *)
(* the memory's controller keeps: a write takes effect when its data phase  *)
(* ends, and a read answers with the word as every earlier write left it.   *)
(* One step is one edge of hclk.  A bus beat is what the manager drives in  *)
(* an address phase; its byte strobes are a set of lanes.                   *)
CONSTANTS Addrs, Lanes, Vals
VARIABLES mem,     \* the word at each address
          dph,     \* the beat in its data phase (op "idle": none)
          ready,   \* the data phase ends in this cycle
          rdata    \* the word on hrdata in this cycle

Words == [Lanes -> Vals]
Beats == [op : {"idle", "read", "write"}, addr : Addrs, lanes : SUBSET Lanes]

(* `word' with the lanes of `lanes' taken from `data'. *)
Overlay(word, lanes, data) ==
  [l \in Lanes |-> IF l \in lanes THEN data[l] ELSE word[l]]

(* The memory once the data phase has ended with `data' on hwdata. *)
Written(data) ==
  IF dph.op = "write"
  THEN [mem EXCEPT ![dph.addr] = Overlay(@, dph.lanes, data)]
  ELSE mem

Init ==
  /\ mem \in [Addrs -> Words]
  /\ dph \in Beats /\ dph.op = "idle"
  /\ ready = TRUE
  /\ rdata \in Words

(* The memory holds the data phase for one more cycle. *)
Wait == ~ready /\ UNCHANGED <<mem, dph>>

(* The data phase ends, with `data' on hwdata, and the beat of the address  *)
(* phase takes its place.                                                   *)
Complete(data) ==
  /\ ready
  /\ dph' \in Beats
  /\ mem' = Written(data)

Answer ==
  /\ ready' \in BOOLEAN
  /\ rdata' \in Words
  /\ ready' /\ dph'.op = "read" => rdata' = mem'[dph'.addr]

Next ==
  /\ Wait \/ \E data \in Words : Complete(data)
  /\ Answer

Spec == Init /\ [][Next]_<<mem, dph, ready, rdata>>
=============================================================================
