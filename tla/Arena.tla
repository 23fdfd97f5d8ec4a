------------------------------- MODULE Arena -------------------------------
(***************************************************************************)
(* ArenaAllocator: blocks of a byte buffer handed out one after the other, *)
(* each between two canaries, until reset gives all of them up at once.    *)
(* verify finds out whether a holder wrote past the ends of its block.     *)
(*                                                                         *)
(* Bytes are named by their offset in m_buffer.  One caller at a time: the *)
(* class has no lock.                                                      *)
(***************************************************************************)
EXTENDS Integers, Sequences

CONSTANTS
  m_capacity,
  Base,        \* address of m_buffer; std::vector<char> aligns it for char only
  Sizes,       \* sizes asked for
  Probes       \* where holders write, counted from the start of their block

ASSUME ArenaAssumption ==
  /\ m_capacity \in Nat /\ Base \in Nat
  /\ Sizes \subseteq Nat /\ Probes \subseteq Int

VARIABLES
  m_used,
  m_allocs,    \* Seq([offset : Nat, size : Nat])
  marked,      \* bytes of m_buffer that hold 0xDB
  alarm,       \* triggerLockdown(IMMEDIATE) has been called
  overrun      \* history: a holder wrote past the ends of its block since reset

arenaVars == <<m_used, m_allocs, marked, alarm, overrun>>

ArenaInit ==
  /\ m_used = 0 /\ m_allocs = <<>> /\ marked = {}
  /\ alarm = FALSE /\ overrun = FALSE

\* From the current address up to a multiple of ALIGNMENT.
Padding == (64 - ((Base + m_used) % 64)) % 64

Header(b) == (b.offset - 64) .. (b.offset - 1)
Footer(b) == (b.offset + b.size) .. (b.offset + b.size + 63)

\* Faulty: forgets the footer.
ConsumptionHeader(size) == 64 + size

\* What a block of this size takes.
Consumption(size) == 64 + size + 64

\* nullptr when it does not fit.
Allocate(size) ==
  LET b == [offset |-> m_used + Padding + 64, size |-> size]
  IN  /\ m_used + Padding + Consumption(size) <= m_capacity
      /\ m_used' = m_used + Padding + Consumption(size)
      /\ m_allocs' = Append(m_allocs, b)
      /\ marked' = marked \cup Header(b) \cup Footer(b)
      /\ UNCHANGED <<alarm, overrun>>

Reset ==
  /\ m_used' = 0 /\ m_allocs' = <<>> /\ overrun' = FALSE
  /\ UNCHANGED <<marked, alarm>>

\* The holder of block i writes one byte, of another value than 0xDB, into the
\* block or at most 64 bytes past one of its ends.
Write(i, k) ==
  /\ k \in -64 .. (m_allocs[i].size + 63)
  /\ marked' = marked \ {m_allocs[i].offset + k}
  /\ overrun' = (overrun \/ k \notin 0 .. (m_allocs[i].size - 1))
  /\ UNCHANGED <<m_used, m_allocs, alarm>>

\* Faulty: looks at the byte next to the block only.
IntactEdge(b) == {b.offset - 1, b.offset + b.size} \subseteq marked

\* Both canaries of a block are as allocate wrote them.
Intact(b) == Header(b) \cup Footer(b) \subseteq marked

verify == \A i \in DOMAIN m_allocs : Intact(m_allocs[i])

Verify ==
  /\ alarm' = (alarm \/ ~ verify)
  /\ UNCHANGED <<m_used, m_allocs, marked, overrun>>

\* check_access lets the bytes from offset on pass.
Accessible(offset, size) == 0 <= offset /\ offset + size <= m_capacity

CheckAccess(offset, size) ==
  /\ alarm' = (alarm \/ ~ Accessible(offset, size))
  /\ UNCHANGED <<m_used, m_allocs, marked, overrun>>

ArenaNext ==
  \/ \E size \in Sizes : Allocate(size)
  \/ Reset
  \/ \E i \in DOMAIN m_allocs, k \in Probes : Write(i, k)
  \/ Verify
  \/ \E i \in DOMAIN m_allocs, k \in Probes :
        CheckAccess(m_allocs[i].offset + k, m_allocs[i].size)

ArenaSpec == ArenaInit /\ [][ArenaNext]_arenaVars

-----------------------------------------------------------------------------
(* Properties *)

ArenaTypeOK ==
  /\ m_used \in Nat
  /\ m_allocs \in Seq([offset : Nat, size : Nat])
  /\ marked \subseteq Int
  /\ alarm \in BOOLEAN /\ overrun \in BOOLEAN

\* Blocks and their canaries lie within the capacity, so that check_access lets
\* every block pass, start at a multiple of 64 wherever the buffer does, and do
\* not overlap, over any number of allocations and resets (allocate, reset,
\* check_access).
BlocksApart ==
  /\ m_used <= m_capacity
  /\ \A i \in DOMAIN m_allocs :
        LET b == m_allocs[i]
        IN  /\ b.offset >= 64 /\ b.offset + b.size + 64 <= m_used
            /\ (Base + b.offset) % 64 = 0
            /\ Accessible(b.offset, b.size)
            /\ \A j \in DOMAIN m_allocs :
                  j < i => m_allocs[j].offset + m_allocs[j].size + 64 <= b.offset - 64

\* verify fails exactly when a holder wrote past an end of its block since the
\* last reset: no write into a block, of any neighbour, looks like corruption,
\* and no later allocation hides an overrun (allocate, verify).
AlarmIffOverrun == ~ verify <=> overrun
=============================================================================
