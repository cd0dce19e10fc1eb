----------------------------- MODULE StatusScan -----------------------------
(***************************************************************************)
(* The round of status queries of statusquery.c,                           *)
(* loop_each_lora_each_plc_each_switch, over the tables that readSwitches  *)
(* has built.                                                              *)
(*                                                                         *)
(* For every LoRa node and every PLC the registers in use, first those of  *)
(* one byte and then those of two, are asked for in runs of consecutive    *)
(* registers of at most MAX_REG_IN_ONE_READ.  The tables do not change     *)
(* once they are read, so a query, its 4 s pause and the search for the    *)
(* next run are one step.                                                  *)
(***************************************************************************)
EXTENDS SwitchTable

CONSTANTS LoraNodes,        \* length of lora_list
          MaxRead           \* MAX_REG_IN_ONE_READ

ASSUME ScanAssumption == LoraNodes \in Nat /\ MaxRead \in Nat \ {0}

VARIABLES
  at,           \* where the scan is
  lora, plc,    \* positions of p_lora and p_plc in their lists
  size,         \* 1 in the block of the one-byte registers, 2 in the other
  start_reg,
  query,        \* history: the registers of the block's last query
  asked         \* history: <<lora, plc, size, register>> asked for in this round

scanVars == <<at, lora, plc, size, start_reg, query, asked>>
vars == <<tableVars, scanVars>>

Init ==
  /\ TableInit
  /\ at = "parse"
  /\ lora = 1 /\ plc = 1 /\ size = 1
  /\ start_reg = 0
  /\ query = {}
  /\ asked = {}

-----------------------------------------------------------------------------
(* Reading the file, then round after round.                               *)

Parse ==
  /\ at = "parse"
  /\ ReadSwitch
  /\ UNCHANGED scanVars

Ready ==
  /\ at = "parse"
  /\ pos = Len(switches)
  /\ at' = "idle"
  /\ UNCHANGED <<tableVars, lora, plc, size, start_reg, query, asked>>

BeginRound ==
  /\ at = "idle"
  /\ at' = "plc"
  /\ lora' = 1 /\ plc' = 1 /\ size' = 1
  /\ query' = {} /\ asked' = {}
  /\ UNCHANGED <<tableVars, start_reg>>

\* The loop conditions p_lora != NULL and p_plc != NULL.
EndRound ==
  /\ at = "plc" /\ lora > LoraNodes
  /\ at' = "idle"
  /\ UNCHANGED <<tableVars, lora, plc, size, start_reg, query, asked>>

\* Mutant of NextLora: the search starts again at the same LoRa node.
NextLoraSame ==
  /\ at = "plc" /\ lora <= LoraNodes /\ plc > Len(plc_list)
  /\ plc' = 1 /\ size' = 1
  /\ UNCHANGED <<tableVars, at, lora, start_reg, query, asked>>

NextLora ==
  /\ at = "plc" /\ lora <= LoraNodes /\ plc > Len(plc_list)
  /\ lora' = lora + 1 /\ plc' = 1 /\ size' = 1
  /\ UNCHANGED <<tableVars, at, start_reg, query, asked>>

\* Mutant of EnterBlock: both blocks start at first_1B.
EnterBlockFirst1B ==
  /\ at = "plc" /\ lora <= LoraNodes /\ plc <= Len(plc_list)
  /\ start_reg' = first[plc_list[plc]][1]
  /\ at' = "block"
  /\ query' = {}
  /\ UNCHANGED <<tableVars, lora, plc, size, asked>>

\* "if (p_plc->first_1B < (MAX_REG_ADDR + 1))", and the same for first_2B.
EnterBlock ==
  /\ at = "plc" /\ lora <= LoraNodes /\ plc <= Len(plc_list)
  /\ start_reg' = first[plc_list[plc]][size]
  /\ at' = "block"
  /\ query' = {}
  /\ UNCHANGED <<tableVars, lora, plc, size, asked>>

\* Mutant of RunEnd: one register more.
RunEndTooFar(used, r) ==
  Least({i \in r .. MaxRegAddr + 1 : i > MaxRegAddr \/ i \notin used \/ i = r + MaxRead + 1})

\* Where the run of registers in use that begins at r stops.
RunEnd(used, r) ==
  Least({i \in r .. MaxRegAddr + 1 : i > MaxRegAddr \/ i \notin used \/ i = r + MaxRead})

\* Mutant of NextUsed: the search starts one register back.
NextUsedBefore(used, i) == Least({r \in i - 1 .. MaxRegAddr + 1 : r > MaxRegAddr \/ r \in used})

\* The next register in use from i on, or MaxRegAddr + 1.
NextUsed(used, i) == Least({r \in i .. MaxRegAddr + 1 : r > MaxRegAddr \/ r \in used})

\* run_single_switch_query_command for the run, then the start of the next one.
Query ==
  /\ at = "block" /\ start_reg <= MaxRegAddr
  /\ LET used == channel[plc_list[plc]][size]
         i == RunEnd(used, start_reg)
     IN /\ query' = start_reg .. i - 1
        /\ asked' = asked \cup {<<lora, plc, size, r>> : r \in query'}
        /\ start_reg' = NextUsed(used, i)
  /\ UNCHANGED <<tableVars, at, lora, plc, size>>

\* Mutant of LeaveBlock: the registers of two bytes are left out.
LeaveBlockEarly ==
  /\ at = "block" /\ start_reg > MaxRegAddr
  /\ at' = "plc"
  /\ size' = 1 /\ plc' = plc + 1
  /\ UNCHANGED <<tableVars, lora, start_reg, query, asked>>

LeaveBlock ==
  /\ at = "block" /\ start_reg > MaxRegAddr
  /\ at' = "plc"
  /\ IF size = 1 THEN size' = 2 /\ plc' = plc ELSE size' = 1 /\ plc' = plc + 1
  /\ UNCHANGED <<tableVars, lora, start_reg, query, asked>>

Scan == BeginRound \/ EndRound \/ NextLora \/ EnterBlock \/ Query \/ LeaveBlock

Next == Parse \/ Ready \/ Scan

Spec == Init /\ [][Next]_vars

\* Start-up finishes and the status thread is scheduled.
FairSpec == Spec /\ WF_vars(Next)

-----------------------------------------------------------------------------
(* Properties.                                                             *)

TypeOK ==
  /\ TableTypeOK
  /\ at \in {"parse", "idle", "plc", "block"}
  /\ lora \in 1 .. LoraNodes + 1
  /\ plc \in 1 .. Len(plc_list) + 1
  /\ size \in Size
  /\ start_reg \in 0 .. MaxRegAddr + 1
  /\ query \in SUBSET Reg
  /\ asked \in SUBSET ((1 .. LoraNodes) \X (1 .. Len(plc_list)) \X Size \X Reg)

InUse(j, z) == channel[plc_list[j]][z]

\* The block of the one-byte or two-byte registers of a PLC of a LoRa node is
\* behind the scan.
Passed(l, j, z) ==
  \/ l < lora
  \/ l = lora /\ j < plc
  \/ l = lora /\ j = plc /\ z < size

\* All that a round has asked for so far: the registers in use of the blocks
\* behind it, and of the present block those below start_reg.  Nothing is left
\* out and nothing asked for that is not in use.
AskedSoFar ==
  at \in {"plc", "block"} =>
    \A l \in 1 .. LoraNodes, j \in DOMAIN plc_list, z \in Size, r \in Reg :
      <<l, j, z, r>> \in asked <=>
        /\ r \in InUse(j, z)
        /\ \/ Passed(l, j, z)
           \/ at = "block" /\ l = lora /\ j = plc /\ z = size /\ r < start_reg

\* A query asks for consecutive registers, no more than a LoRa frame holds.
QueriesFit ==
  query # {} => \E r \in Reg, n \in 1 .. MaxRead : query = r .. r + n - 1

\* The scan runs on tables that are read to the end, inside the lists, and starts
\* every query at a register in use.
ScanInv ==
  /\ at # "parse" => pos = Len(switches)
  /\ at = "block" => lora <= LoraNodes /\ plc <= Len(plc_list)
  /\ at = "block" /\ start_reg <= MaxRegAddr => start_reg \in InUse(plc, size)

\* When a round ends every LoRa node has been asked for every switch of the file.
RoundComplete ==
  (at = "plc" /\ lora > LoraNodes) =>
    \A k \in DOMAIN switches, l \in 1 .. LoraNodes :
      switches[k].reg_len \in Size =>
        \E j \in DOMAIN plc_list :
          /\ plc_list[j] = switches[k].plc
          /\ <<l, j, switches[k].reg_len, ReportReg(switches[k])>> \in asked

\* No query is for nothing, and no register is asked for twice in a round: each
\* costs 4 s of air time.
NoRegisterTwice ==
  [][Query => /\ query' # {}
              /\ \A r \in query' : <<lora, plc, size, r>> \notin asked]_vars

\* Rounds go on: the search for the next run always gets ahead.
RoundsGoOn == []<>(at = "idle")

=============================================================================
