---------------------------- MODULE MCStatusScan ----------------------------
EXTENDS StatusScan

MCName == {"a", "b"}
MCPlc == {1, 2}

Entry(n, p, r, ro, z) ==
  [name |-> n, plc |-> p, plc_channel |-> r, plc_channel_ro |-> ro, reg_len |-> z]

\* Every use of five one-byte and three two-byte registers of one PLC, and of the
\* first register of a second one.
ScanEntries ==
  <<Entry("a", 1, 3, -1, 1), Entry("a", 1, 0, -1, 1), Entry("a", 1, 1, -1, 1),
    Entry("a", 1, 2, -1, 1), Entry("a", 1, 4, -1, 1), Entry("a", 1, 0, -1, 2),
    Entry("a", 1, 1, -1, 2), Entry("a", 2, 0, -1, 1), Entry("a", 1, 3, -1, 2)>>

ScanFile == {SelectSeq(ScanEntries, LAMBDA e : e \in used) : used \in SUBSET Range(ScanEntries)}

\* Both names on both PLCs at both ends of the registers; others in the middle,
\* of two bytes, with a read-only register, of a size that the code leaves aside.
TableEntries ==
  {Entry(n, p, r, -1, 1) : n \in MCName, p \in MCPlc, r \in {0, 4}}
    \cup {Entry("b", 1, 1, -1, 1), Entry("b", 1, 1, -1, 2), Entry("b", 1, 4, -1, 2),
          Entry("a", 1, 0, 1, 1), Entry("a", 2, 0, -1, 4)}

\* Up to three switches in any order, names and registers used twice.
TableFile == UNION {[1 .. n -> TableEntries] : n \in 0 .. 3}

MCFile == ScanFile \cup TableFile

=============================================================================
