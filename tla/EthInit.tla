------------------------------ MODULE EthInit ------------------------------
(***************************************************************************)
(* How the ENC28J60 is configured, and whether the configuration survives. *)
(*                                                                         *)
(* The chip has four banks of registers behind one set of addresses; main  *)
(* selects a bank, then loads and stores by address.  The handler of EXTI0 *)
(* selects banks of its own and does not restore the one it found, so what *)
(* main stores after it lands at the same address of another bank.  main   *)
(* is a sequence of bus accesses; the handler is one step, which begins    *)
(* between two of them, or inside of one, and then it may leave anything   *)
(* in the chip (SpiBus has the bytes).  A register holds the set of its    *)
(* bits that are 1.                                                        *)
(***************************************************************************)
EXTENDS Integers, Sequences

CONSTANTS
    rx_buff_end, tx_buff_start, max_frame_length,  \* manager.c's config
    mac,                 \* the six bytes of the station's address
    NextPointers,        \* ERXRDPT values the handler's reads may leave
    Junk,                \* what a handler inside an access may leave and main read
    Runs                 \* bound on the runs of the handler

ASSUME ConfigAssumption ==
    /\ {rx_buff_end, tx_buff_start, max_frame_length} \subseteq 0 .. 2^13 - 1
    /\ mac \in [1 .. 6 -> 0 .. 255]
    /\ NextPointers \subseteq 0 .. 255 /\ Runs \in Nat

Bits(n) == {i \in 0 .. 15 : (n \div 2^i) % 2 = 1}
Low(bits)  == {i \in bits : i < 8}
High(bits) == {i - 8 : i \in bits \ (0 .. 7)}
Word(high, low) == low \cup {i + 8 : i \in high}

(***************************************************************************)
(* The register map: the bank and the address of each register the code    *)
(* names.  Addresses from 0x1B up are the same register in every bank.     *)
(***************************************************************************)
Home ==
    [ERDPTL |-> <<0, 0>>, ERDPTH |-> <<0, 1>>, EWRPTL |-> <<0, 2>>, EWRPTH |-> <<0, 3>>,
     ETXSTL |-> <<0, 4>>, ETXSTH |-> <<0, 5>>, ETXNDL |-> <<0, 6>>, ETXNDH |-> <<0, 7>>,
     ERXSTL |-> <<0, 8>>, ERXSTH |-> <<0, 9>>, ERXNDL |-> <<0, 10>>, ERXNDH |-> <<0, 11>>,
     ERXRDPTL |-> <<0, 12>>, ERXRDPTH |-> <<0, 13>>,
     ERXFCON |-> <<1, 24>>, EPKTCNT |-> <<1, 25>>,
     MACON1 |-> <<2, 0>>, MACON3 |-> <<2, 2>>, MABBIPG |-> <<2, 4>>, MAIPGL |-> <<2, 6>>,
     MAMXFLL |-> <<2, 10>>, MAMXFLH |-> <<2, 11>>, MICMD |-> <<2, 18>>, MIREGADR |-> <<2, 20>>,
     MIWRL |-> <<2, 22>>, MIWRH |-> <<2, 23>>, MIRDL |-> <<2, 24>>, MIRDH |-> <<2, 25>>,
     MAADR5 |-> <<3, 0>>, MAADR6 |-> <<3, 1>>, MAADR3 |-> <<3, 2>>, MAADR4 |-> <<3, 3>>,
     MAADR1 |-> <<3, 4>>, MAADR2 |-> <<3, 5>>, MISTAT |-> <<3, 10>>, EREVID |-> <<3, 18>>,
     EIE |-> <<0, 27>>, ESTAT |-> <<0, 29>>, ECON2 |-> <<0, 30>>, ECON1 |-> <<0, 31>>]

Cells == ((0 .. 3) \X (0 .. 26)) \cup ({0} \X (27 .. 31))
Cell(b, address) == IF address >= 27 THEN <<0, address>> ELSE <<b, address>>
Address(r) == Home[r][2]

\* The addresses of the PHY's registers, 0 and 18 to 20, as they stand in MIREGADR; of
\* PHSTAT2, which only the handler reads, there is what it may read: is the link up?
PhyAt == [PHCON1 |-> {}, PHIE |-> {1, 4}, PHIR |-> {0, 1, 4}, PHLCON |-> {2, 4}]
PhyCells == {PhyAt[r] : r \in DOMAIN PhyAt}
LinkStatus == {{}, {10}}

ASSUME JunkAssumption ==
    Junk \subseteq [regs : [Cells -> SUBSET (0 .. 7)], bank : 0 .. 3,
                   phy : [PhyCells -> SUBSET (0 .. 15)], acc : SUBSET (0 .. 15)]

(***************************************************************************)
(* The driver's functions as sequences of accesses.  A load replaces the   *)
(* local variable of the function, or fills its high or low byte; change   *)
(* computes on it, fill sets it; a store writes given bits, or a byte of   *)
(* the variable.                                                           *)
(* bank_select is one access here: its store sets the bank whatever its    *)
(* load saw, and nobody else changes the other bits of ECON1 this module   *)
(* speaks of (EthTransmit has the load, and TXRTS).                        *)
(***************************************************************************)
bank_select(b) == [do |-> "select", bank |-> b]
rcr(r) == [do |-> "load", at |-> Address(r), part |-> "byte"]
wcr(r, bits) == [do |-> "store", at |-> Address(r), bits |-> bits]
bfs(r, bits) == [do |-> "set", at |-> Address(r), bits |-> bits]
bfc(r, bits) == [do |-> "clear", at |-> Address(r), bits |-> bits]
wait_until_set(r, bit) == [do |-> "await", at |-> Address(r), bit |-> bit, is |-> TRUE]
wait_until_clear(r, bit) == [do |-> "await", at |-> Address(r), bit |-> bit, is |-> FALSE]
src == [do |-> "reset"]

LoadPart(r, part) == [do |-> "load", at |-> Address(r), part |-> part]
StorePart(r, part) == [do |-> "storePart", at |-> Address(r), part |-> part]
Change(drop, add) == [do |-> "change", drop |-> drop, add |-> add]
Fill(bits) == [do |-> "fill", bits |-> bits]

\* The PHY registers are reached through MIREGADR, MICMD, MIWR and MIRD of bank 2;
\* what is written is the local variable, which Change or Fill sets up.
phy_write(reg) ==
    <<bank_select(2), wcr("MIREGADR", PhyAt[reg]),
      StorePart("MIWRL", "low"), StorePart("MIWRH", "high"),
      bank_select(3), wait_until_clear("MISTAT", 0)>>

phy_read(reg) ==
    <<bank_select(2), wcr("MIREGADR", PhyAt[reg]),
      rcr("MICMD"), Change({}, {0}), StorePart("MICMD", "low"),
      bank_select(3), wait_until_clear("MISTAT", 0), bank_select(2),
      rcr("MICMD"), Change({0}, {}), StorePart("MICMD", "low"),
      LoadPart("MIRDH", "high"), LoadPart("MIRDL", "low")>>

phy_change(reg, drop, add) == phy_read(reg) \o <<Change(drop, add)>> \o phy_write(reg)

get_erevid == <<bank_select(3), rcr("EREVID")>>
packet_count == <<bank_select(1), rcr("EPKTCNT")>>
ledb_mode == phy_change("PHLCON", 4 .. 7, {4})
leda_mode == phy_change("PHLCON", 8 .. 11, {8 + 2, 8 + 3})

\* A bug to be caught: a receive buffer that ends at an odd address.
rx_init_Odd ==
    <<bank_select(0), wcr("ERXSTL", {}), wcr("ERXSTH", {}),
      wcr("ERXNDL", Low(Bits(rx_buff_end - 1))), wcr("ERXNDH", High(Bits(rx_buff_end - 1))),
      wcr("ERXRDPTH", {}), wcr("ERXRDPTL", {})>>

rx_init ==
    <<bank_select(0), wcr("ERXSTL", {}), wcr("ERXSTH", {}),
      wcr("ERXNDL", Low(Bits(rx_buff_end))), wcr("ERXNDH", High(Bits(rx_buff_end))),
      wcr("ERXRDPTH", {}), wcr("ERXRDPTL", {})>>

write_mac ==
    <<bank_select(3),
      wcr("MAADR1", Bits(mac[1])), wcr("MAADR2", Bits(mac[2])), wcr("MAADR3", Bits(mac[3])),
      wcr("MAADR4", Bits(mac[4])), wcr("MAADR5", Bits(mac[5])), wcr("MAADR6", Bits(mac[6]))>>

\* config.full_duplex is 1 in manager.c and nothing stores it, so the branches of
\* half duplex are left out here and in phy_init.
mac_init ==
    <<bank_select(2),
      rcr("MACON1"), Change({}, {0, 2, 3}), StorePart("MACON1", "low"),
      rcr("MACON3"), Change({}, {0, 1, 4, 5}), StorePart("MACON3", "low"),
      wcr("MAMXFLL", Low(Bits(max_frame_length))), wcr("MAMXFLH", High(Bits(max_frame_length))),
      wcr("MABBIPG", Bits(21)), wcr("MAIPGL", Bits(18))>> \o write_mac

phy_init == phy_change("PHCON1", {}, {8})
interrupt_init == <<Fill({4, 1})>> \o phy_write("PHIE") \o <<wcr("EIE", {7, 6, 4, 1, 0})>>
filters_init == <<bank_select(1), wcr("ERXFCON", {7, 5, 0})>>

\* A bug to be caught: the interrupts enabled before the chip is configured.
init_EnablesFirst ==
    <<src, wait_until_set("ESTAT", 0)>> \o get_erevid
    \o <<bfc("ECON1", {2})>> \o rx_init \o interrupt_init \o mac_init \o phy_init
    \o <<bfs("ECON1", {2})>> \o filters_init

\* delay_ms(1) after the revision is read touches no register of the chip.
init ==
    <<src, wait_until_set("ESTAT", 0)>> \o get_erevid
    \o <<bfc("ECON1", {2})>> \o rx_init \o mac_init \o phy_init
    \o <<bfs("ECON1", {2})>> \o interrupt_init \o filters_init

\* The registers enc28j60_write stores, for the place they land in: EWRPT does not move
\* here, and the wait for TXRTS, the buffer memory and the transmission are EthTransmit's.
\* The code passes bfs the constant 7 where it means bit 7; a reset sets AUTOINC anyway.
write ==
    <<bank_select(0),
      wcr("ETXSTL", Low(Bits(tx_buff_start))), wcr("ETXSTH", High(Bits(tx_buff_start))),
      bfs("ECON2", Bits(7)),
      bank_select(0),
      wcr("EWRPTL", Low(Bits(tx_buff_start))), wcr("EWRPTH", High(Bits(tx_buff_start))),
      LoadPart("EWRPTH", "high"), LoadPart("EWRPTL", "low"),
      StorePart("ETXNDL", "low"), StorePart("ETXNDH", "high")>>

\* What main runs: enc28j60_init, the rest of manager_init, then in manager_poll the
\* packet count, a reset by the watchdog, an answer.
Program == [init |-> init, leds |-> ledb_mode \o leda_mode \o get_erevid,
            count |-> packet_count, write |-> write, idle |-> <<>>]

-----------------------------------------------------------------------------
VARIABLES
    regs,     \* cell -> the bits that are 1; ECON1 without its bank bits
    bank,     \* the bank bits of ECON1
    phy,      \* PHY register, by its address in bits -> its bits
    mii,      \* the transaction between MAC and PHY under way, as a set of at most one
    prog, pc, \* what main runs, and its next access
    acc,      \* the local variable of the function main is in
    booted,   \* manager_init has returned
    runs,     \* runs of the handler so far
    torn      \* history: one has begun inside an access of main, since the chip was
              \* reset
vars == <<regs, bank, phy, mii, prog, pc, acc, booted, runs, torn>>

Value(cell) == IF cell = Home["MISTAT"] THEN {0 : t \in mii} ELSE regs[cell]

\* The chip after a reset, as far as the code relies on it.  The silicon may leave
\* CLKRDY set and the PHY as it was.
Fresh(early) ==
    [c \in Cells |-> CASE c = Home["ERXFCON"] -> {7, 5, 0}
                       [] c = Home["ECON2"]   -> {7}
                       [] c = Home["EREVID"]  -> {1, 2}
                       [] c = Home["ESTAT"]   -> {0 : e \in early}
                       [] c \in {Home["ERXNDL"], Home["MAMXFLH"]} -> {0, 1, 2, 3, 4, 5, 6, 7}
                       [] OTHER -> {}]
PhyFresh == [a \in PhyCells |->
               IF a = PhyAt["PHLCON"] THEN Bits(13346) ELSE {}]

Running == pc <= Len(Program[prog])
Now == Program[prog][pc]
At == Cell(bank, Now.at)
Reaches(kind) == Running /\ Now.do = kind /\ pc' = pc + 1 /\ UNCHANGED <<prog, booted, runs>>
Does(kind) == Reaches(kind) /\ UNCHANGED torn

Select ==
    /\ Does("select") /\ bank' = Now.bank
    /\ UNCHANGED <<regs, phy, mii, acc>>

Load ==
    /\ Does("load")
    /\ acc' = CASE Now.part = "high" -> Word(Value(At), {})
               [] Now.part = "low"  -> acc \cup Value(At)
               [] OTHER             -> Value(At)
    /\ UNCHANGED <<regs, bank, phy, mii>>

Modify ==
    /\ \/ Does("change") /\ acc' = (acc \ Now.drop) \cup Now.add
       \/ Does("fill") /\ acc' = Now.bits
    /\ UNCHANGED <<regs, bank, phy, mii>>

\* A store to MIWRH starts writing to the PHY, one that sets MIIRD starts reading.
PutBits(bits) ==
    LET Start(op) == {[op |-> op, reg |-> regs[Home["MIREGADR"]],
                       bits |-> Word(bits, regs[Home["MIWRL"]])]}
    IN  /\ regs' = [regs EXCEPT ![At] = bits]
        /\ mii' = IF At = Home["MIWRH"] THEN Start("write")
                  ELSE IF At = Home["MICMD"] /\ 0 \in bits THEN Start("read")
                  ELSE mii
        /\ UNCHANGED <<bank, phy, acc>>

Store ==
    \/ Does("store") /\ PutBits(Now.bits)
    \/ Does("storePart") /\ PutBits(IF Now.part = "high" THEN High(acc) ELSE Low(acc))

SetOrClear ==
    /\ \/ Does("set")   /\ regs' = [regs EXCEPT ![At] = @ \cup Now.bits]
       \/ Does("clear") /\ regs' = [regs EXCEPT ![At] = @ \ Now.bits]
    /\ UNCHANGED <<bank, phy, mii, acc>>

Await ==
    /\ Does("await") /\ (Now.bit \in Value(At)) = Now.is
    /\ UNCHANGED <<regs, bank, phy, mii, acc>>

Reset ==
    /\ Reaches("reset") /\ torn' = FALSE
    /\ \E early \in {{}, {1}} : regs' = Fresh(early)
    /\ phy' \in {phy, PhyFresh}
    /\ bank' = 0 /\ mii' = {}
    /\ UNCHANGED acc

\* The end of one program and the choice of the next.
Proceed ==
    /\ ~Running /\ pc' = 1
    /\ prog' \in CASE prog = "init" /\ ~booted -> {"leds"}
                  [] prog = "idle"  -> {"count", "write"}
                  [] prog = "count" -> {"idle", "init"}
                  [] OTHER -> {"idle"}
    /\ booted' = (booted \/ prog = "leds")
    /\ acc' = {}
    /\ UNCHANGED <<regs, bank, phy, mii, runs, torn>>

Main == Select \/ Load \/ Modify \/ Store \/ SetOrClear \/ Await \/ Reset \/ Proceed

\* The oscillator starts; a transaction with the PHY ends.  Only the control registers of
\* the PHY can be written.  Of its other registers, which only a handler inside an access
\* makes main reach, nothing is kept.
ClockReady ==
    /\ 0 \notin regs[Home["ESTAT"]]
    /\ regs' = [regs EXCEPT ![Home["ESTAT"]] = @ \cup {0}]
    /\ UNCHANGED <<bank, phy, mii, prog, pc, acc, booted, runs, torn>>

MiiDone ==
    /\ \E t \in mii :
         \/ /\ t.op = "write"
            /\ phy' = IF t.reg \in PhyCells \ {PhyAt["PHIR"]} THEN [phy EXCEPT ![t.reg] = t.bits] ELSE phy
            /\ UNCHANGED regs
         \/ /\ t.op = "read"
            /\ \E word \in IF t.reg \in PhyCells THEN {phy[t.reg]} ELSE LinkStatus :
                 regs' = [regs EXCEPT ![Home["MIRDH"]] = High(word),
                                      ![Home["MIRDL"]] = Low(word)]
            /\ UNCHANGED phy
    /\ mii' = {}
    /\ UNCHANGED <<bank, prog, pc, acc, booted, runs, torn>>

(***************************************************************************)
(* EXTI0_IRQHandler between two accesses of main, while the chip may       *)
(* interrupt.  It ends in bank 1, where it found no more packets, or in    *)
(* bank 0, where it returned early after reading one.  A change of the     *)
(* link makes it read PHSTAT2 and write 0 to PHIR: a transaction main had  *)
(* under way is over then, ended as MiiDone has it or given up.            *)
(***************************************************************************)
LinkChange(status) ==
    [regs EXCEPT ![Home["MIREGADR"]] = PhyAt["PHIR"], ![Home["MICMD"]] = @ \ {0},
                 ![Home["MIWRL"]] = {}, ![Home["MIWRH"]] = {},
                 ![Home["MIRDL"]] = Low(status), ![Home["MIRDH"]] = High(status)]

PacketRead(file, next) ==
    [file EXCEPT ![Home["ERDPTL"]] = file[Home["ERXRDPTL"]], ![Home["ERDPTH"]] = {},
                 ![Home["ERXRDPTL"]] = Bits(next), ![Home["ERXRDPTH"]] = {},
                 ![Home["ECON2"]] = @ \cup Bits(7)]

Handler ==
    /\ runs < Runs /\ 7 \in regs[Home["EIE"]]
    /\ runs' = runs + 1
    /\ \E link \in BOOLEAN, status \in LinkStatus :
         LET file == IF link THEN LinkChange(status) ELSE regs IN
         /\ mii' = IF link THEN {} ELSE mii
         /\ \/ bank' = 1 /\ regs' = file
            \/ bank' \in {0, 1} /\ \E n \in NextPointers : regs' = PacketRead(file, n)
    /\ UNCHANGED <<phy, prog, pc, acc, booted, torn>>

(***************************************************************************)
(* EXTI0_IRQHandler inside an access of main.  Its first byte, 0x1C, may   *)
(* be taken for the data of main's store, while all the rest is well and   *)
(* it finds no packet; or it reads one byte late, or a byte of it is cut,  *)
(* and what it then stores is anything.  Main's access is not heard, or is *)
(* answered by junk.                                                       *)
(***************************************************************************)
Overheard ==
    CASE Now.do \in {"store", "storePart"} -> [regs EXCEPT ![At] = {2, 3, 4}]
      [] Now.do = "set"   -> [regs EXCEPT ![At] = @ \cup {2, 3, 4}]
      [] Now.do = "clear" -> [regs EXCEPT ![At] = @ \ {2, 3, 4}]
      [] OTHER -> regs

HandlerInside ==
    /\ runs < Runs /\ 7 \in regs[Home["EIE"]]
    /\ Running /\ Now.do \notin {"change", "fill"}
    /\ pc' \in (IF Now.do = "await" THEN {pc, pc + 1} ELSE {pc + 1})
    /\ \E left \in Junk :
         /\ acc' = IF Now.do = "load" THEN left.acc ELSE acc
         /\ \/ regs' = Overheard /\ bank' = 1 /\ UNCHANGED <<phy, mii>>
            \/ regs' = left.regs /\ bank' = left.bank /\ phy' = left.phy /\ mii' = {}
    /\ runs' = runs + 1 /\ torn' = TRUE
    /\ UNCHANGED <<prog, booted>>

Init ==
    /\ regs = Fresh({}) /\ phy = PhyFresh /\ bank = 0 /\ mii = {}
    /\ prog = "init" /\ pc = 1 /\ acc = {} /\ booted = FALSE /\ runs = 0
    /\ torn = FALSE

Next == Main \/ ClockReady \/ MiiDone \/ Handler \/ HandlerInside
Spec == Init /\ [][Next]_vars

\* main is the only thread and the handler returns; the oscillator starts and the
\* MAC finishes its transactions.
FairSpec == Spec /\ WF_vars(Main) /\ WF_vars(ClockReady) /\ WF_vars(MiiDone)

-----------------------------------------------------------------------------
\* From the moment the chip may interrupt, it is configured as enc28j60_init means it
\* (enc28j60.c:644-675) and stays so until a handler begins inside an access of main: no
\* store of main that lands in the wrong bank after a run of the handler, and no run of
\* the handler between the steps of an access to the PHY, reaches a register of the
\* configuration, in the boot, in the packets sent, or in a reset by the watchdog.  What
\* a handler inside an access has left, the next reset and init repair, down to the
\* full duplex of the PHY, which a reset may leave as it was.  Reception is enabled from
\* the end of init on.
Configured ==
    [ERXSTL |-> {}, ERXSTH |-> {}, ERXNDL |-> Low(Bits(rx_buff_end)),
     ERXNDH |-> High(Bits(rx_buff_end)), ERXFCON |-> {7, 5, 0},
     MACON1 |-> {0, 2, 3}, MACON3 |-> {0, 1, 4, 5}, MABBIPG |-> Bits(21), MAIPGL |-> Bits(18),
     MAMXFLL |-> Low(Bits(max_frame_length)), MAMXFLH |-> High(Bits(max_frame_length)),
     MAADR1 |-> Bits(mac[1]), MAADR2 |-> Bits(mac[2]), MAADR3 |-> Bits(mac[3]),
     MAADR4 |-> Bits(mac[4]), MAADR5 |-> Bits(mac[5]), MAADR6 |-> Bits(mac[6]),
     EIE |-> {7, 6, 4, 1, 0}]

ConfigKept ==
    7 \in regs[Home["EIE"]] /\ ~torn =>
        /\ \A r \in DOMAIN Configured : regs[Home[r]] = Configured[r]
        /\ 7 \in regs[Home["ECON2"]] /\ 2 \in regs[Home["ECON1"]]
        /\ 8 \in phy[PhyAt["PHCON1"]] /\ phy[PhyAt["PHIE"]] = {4, 1}

\* Whatever main runs ends: the boot, and the reset of a watchdog that fires at any
\* poll.  The wait for MISTAT.BUSY (enc28j60.c:469-470) ends even when the handler
\* moved the bank during it: the same address is ERXNDL in bank 0, whose bit 0 is bit 0
\* of rx_buff_end, and a register nothing sets in bank 1.  It may not end when the
\* handler has begun inside an access.
ProgramsEnd == []<>(prog = "idle" \/ torn)
=============================================================================
