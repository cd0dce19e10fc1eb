---------------------------- MODULE SwitchTable ----------------------------
(***************************************************************************)
(* The tables of switches and PLCs that readSwitches builds from           *)
(* switches.json (parse_switch.c).                                         *)
(*                                                                         *)
(* One step is one pass of its loop: a switch of the file goes to the      *)
(* front of switch_list, which commands are looked up in, and into the     *)
(* node of its PLC, which replies are named by and status queries planned  *)
(* with.                                                                   *)
(***************************************************************************)
EXTENDS Integers, Sequences, Functions

CONSTANTS Name,         \* switch names
          Plc,          \* 485 addresses
          MaxRegAddr,   \* MAX_REG_ADDR
          File,         \* the switch arrays switches.json may hold
          NULL

Reg == 0 .. MaxRegAddr

\* A switch of the file.  plc_channel_ro is -1 where the file has none.
Switch == [name : Name, plc : Plc, plc_channel : Reg,
           plc_channel_ro : Reg \cup {-1}, reg_len : Nat]

\* The code indexes its tables without a check: the file keeps to MAX_REG_ADDR.
ASSUME ConstantsAssumption ==
  /\ MaxRegAddr \in Nat
  /\ File \subseteq Seq(Switch)
  /\ NULL \notin Name \cup Switch

VARIABLES
  switches,     \* the array in the file
  pos,          \* how many of its switches have been read
  switch_list,  \* front first
  plc_list,     \* 485 addresses of the nodes, front first
  first,        \* plc -> size -> first_1B, first_2B
  last,         \* plc -> size -> last_1B, last_2B
  channel,      \* plc -> size -> the registers set in channel_1B, channel_2B
  reg2name      \* plc -> register -> name

plcVars == <<plc_list, first, last, channel, reg2name>>
tableVars == <<switches, pos, switch_list, plcVars>>

Size == {1, 2}

\* The fields of a PLC not listed have the values its node is created with.
TableInit ==
  /\ switches \in File
  /\ pos = 0
  /\ switch_list = <<>>
  /\ plc_list = <<>>
  /\ first = [p \in Plc |-> [z \in Size |-> MaxRegAddr + 1]]
  /\ last = [p \in Plc |-> [z \in Size |-> -1]]
  /\ channel = [p \in Plc |-> [z \in Size |-> {}]]
  /\ reg2name = [p \in Plc |-> [r \in Reg |-> NULL]]

-----------------------------------------------------------------------------

\* Mutant of ReportReg: the readonly channel is used where there is none.
ReportRegRo(s) == s.plc_channel_ro

\* "if readonly channel is defined for a switch, use it"
ReportReg(s) == IF s.plc_channel_ro >= 0 THEN s.plc_channel_ro ELSE s.plc_channel

\* Mutant of MarkChannel: the upper bound follows only where the lower did not.
MarkChannelElse(p, z, r) ==
  /\ channel' = [channel EXCEPT ![p][z] = @ \cup {r}]
  /\ first' = [first EXCEPT ![p][z] = IF r <= @ THEN r ELSE @]
  /\ last' = [last EXCEPT ![p][z] = IF r > first[p][z] /\ r >= @ THEN r ELSE @]

\* Mutant of MarkChannel: the second block marks channel_1B.
MarkChannelCopied(p, z, r) ==
  /\ channel' = [channel EXCEPT ![p][1] = @ \cup {r}]
  /\ first' = [first EXCEPT ![p][z] = IF r <= @ THEN r ELSE @]
  /\ last' = [last EXCEPT ![p][z] = IF r >= @ THEN r ELSE @]

\* Register r of size z is in use on PLC p.
MarkChannel(p, z, r) ==
  /\ channel' = [channel EXCEPT ![p][z] = @ \cup {r}]
  /\ first' = [first EXCEPT ![p][z] = IF r <= @ THEN r ELSE @]
  /\ last' = [last EXCEPT ![p][z] = IF r >= @ THEN r ELSE @]

\* Mutant of ListPlc: get_plc_node is not asked for the node there is.
ListPlcAgain(p) == plc_list' = <<p>> \o plc_list

\* get_plc_node and add_plc_to_list: a new PLC goes to the front.
ListPlc(p) == plc_list' = IF p \in Range(plc_list) THEN plc_list ELSE <<p>> \o plc_list

\* Mutant of NameReg: the register commands are written to is named.
NameCommandReg(s) == reg2name' = [reg2name EXCEPT ![s.plc][s.plc_channel] = s.name]

NameReg(s) == reg2name' = [reg2name EXCEPT ![s.plc][ReportReg(s)] = s.name]

\* Mutant of AddSwitch: a switch goes to the end of the list.
AddSwitchLast(s) == switch_list' = Append(switch_list, s)

AddSwitch(s) == switch_list' = <<s>> \o switch_list

\* One pass of the loop over the array.
ReadSwitch ==
  /\ pos < Len(switches)
  /\ LET s == switches[pos + 1]
     IN /\ AddSwitch(s)
        /\ ListPlc(s.plc)
        /\ NameReg(s)
        /\ IF s.reg_len \in Size
           THEN MarkChannel(s.plc, s.reg_len, ReportReg(s))
           ELSE UNCHANGED <<channel, first, last>>
  /\ pos' = pos + 1
  /\ UNCHANGED switches

\* The least member of a set of naturals.
Least(S) == CHOOSE x \in S : \A y \in S : x <= y

\* The first node of that name.
get_switch_node(name) ==
  LET found == {i \in DOMAIN switch_list : switch_list[i].name = name}
  IN IF found = {} THEN NULL ELSE switch_list[Least(found)]

TableSpec == TableInit /\ [][ReadSwitch]_tableVars

-----------------------------------------------------------------------------
(* Properties.                                                             *)

TableTypeOK ==
  /\ switches \in File
  /\ pos \in 0 .. Len(switches)
  /\ switch_list \in Seq(Switch)
  /\ plc_list \in Seq(Plc)
  /\ first \in [Plc -> [Size -> 0 .. MaxRegAddr + 1]]
  /\ last \in [Plc -> [Size -> -1 .. MaxRegAddr]]
  /\ channel \in [Plc -> [Size -> SUBSET Reg]]
  /\ reg2name \in [Plc -> [Reg -> Name \cup {NULL}]]

\* The switches read so far.
Done == 1 .. pos

\* The bounds that the status query starts from are the least and the greatest
\* register in use: a register outside them would never be asked for, and a
\* start that is not in use would give a query for no register.
BoundsTight ==
  \A p \in Plc, z \in Size :
    IF channel[p][z] = {}
    THEN first[p][z] = MaxRegAddr + 1 /\ last[p][z] = -1
    ELSE /\ first[p][z] \in channel[p][z] /\ last[p][z] \in channel[p][z]
         /\ \A r \in channel[p][z] : first[p][z] <= r /\ r <= last[p][z]

\* The registers in use are those of the switches read, with the size the file
\* gives them, whatever the order of the file.
ChannelsOfFile ==
  \A p \in Plc, z \in Size :
    channel[p][z] = {ReportReg(switches[k]) : k \in {i \in Done : switches[i].plc = p /\ switches[i].reg_len = z}}

\* Every PLC of the file has one node: with two, the scan would ask twice and
\* get_plc_node would see only one of them.
EachPlcOnce ==
  /\ \A i, j \in DOMAIN plc_list : i # j => plc_list[i] # plc_list[j]
  /\ Range(plc_list) = {switches[k].plc : k \in Done}

\* What a round of the status scan goes by is what the file says, after every
\* switch: bounds, registers and PLCs.
TablesOfFile == BoundsTight /\ ChannelsOfFile /\ EachPlcOnce

\* switch_list holds the switches read, last one first.
ListReversed ==
  /\ Len(switch_list) = pos
  /\ \A i \in Done : switch_list[i] = switches[pos + 1 - i]

\* A register is named by the last switch of the file that is reported there.
NamesOfFile ==
  \A k \in Done :
    (\A j \in Done : j > k => ~ (/\ switches[j].plc = switches[k].plc
                                 /\ ReportReg(switches[j]) = ReportReg(switches[k])))
    => reg2name[switches[k].plc][ReportReg(switches[k])] = switches[k].name

\* A command for a name goes to the last switch of that name in the file; a name
\* that is not in the file has no node.
CommandsFindLastDefinition ==
  \A name \in Name :
    LET defs == {k \in Done : switches[k].name = name}
    IN get_switch_node(name) =
         IF defs = {} THEN NULL
         ELSE switches[CHOOSE k \in defs : \A j \in defs : j <= k]

\* Where names and registers are not used twice, a reply on the register of a
\* switch is reported under the name that commands it.
ReportsUnderCommandName ==
  (\A i, j \in Done : i # j =>
      /\ switches[i].name # switches[j].name
      /\ switches[i].plc = switches[j].plc => ReportReg(switches[i]) # ReportReg(switches[j]))
  => \A k \in Done :
       LET s == switches[k]
           reported == reg2name[s.plc][ReportReg(s)]
       IN reported = s.name /\ get_switch_node(reported) = s

=============================================================================
