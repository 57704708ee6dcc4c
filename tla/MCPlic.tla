------------------------------- MODULE MCPlic -------------------------------
(* Model checking of Plic with raw register accesses: any of the transfers *)
(* below may be issued in any cycle, in any order, by any master.          *)
EXTENDS Plic

(* One hart with an M context 0 and an S context 1, two sources in two     *)
(* enable words, priorities 0 to 2. *)
Rd(win, c)          == [NoAccess EXCEPT !.win = win, !.ctx = c]
Wr(win, c, s, v, b) == [Rd(win, c) EXCEPT !.wr = TRUE, !.src = s, !.val = v, !.bits = b]

Allowed ==
  {Rd("claim", c) : c \in 0 .. 1}
  \cup {Wr("claim", c, s, 0, {}) : c \in 0 .. 1, s \in {1, 2, 3}}
  \cup {Wr("priority", 0, s, v, {}) : s \in 1 .. 2, v \in 0 .. 1}
  \cup {Wr("priority", 0, 1, 2, {}), Wr("priority", 0, 3, 1, {})}
  \cup {Wr("pending", 0, 0, 0, {1, 2}), Rd("reserved", 0)}
  \cup {Wr("enable", 0, 0, 0, b) : b \in {{}, {1, 2}}}
  \cup {[Wr("enable", 1, 0, 0, b) EXCEPT !.word = w] :
          w \in 0 .. 1, b \in {{}, {1, 2}}}
  \cup {Wr("threshold", 1, 0, v, {}) : v \in 0 .. 1}

(* The same window reached by a mode or a size the filter rejects or not. *)
Filtered ==
  {[Rd("claim", c) EXCEPT !.mode = "S"] : c \in 0 .. 1}
  \cup {[Wr("priority", 0, 1, 1, {}) EXCEPT !.mode = "U"],
        [Wr("enable", 0, 0, 0, {1}) EXCEPT !.mode = "S"],
        [Rd("claim", 1) EXCEPT !.size_ok = FALSE],
        [Wr("claim", 1, 1, 0, {}) EXCEPT !.mode = "U", !.size_ok = FALSE]}

MCTraffic == Allowed \cup Filtered
============================================================================
