---------------------------- MODULE EthInitProofs ----------------------------
(***************************************************************************)
(* The configuration of the chip is kept, for every configuration and any  *)
(* number of runs of the handler between two accesses of main, and after   *)
(* one that began inside of an access the next reset restores it.          *)
(***************************************************************************)
EXTENDS EthInit, TLAPS

-----------------------------------------------------------------------------
(* The inductive invariant.  Up to the store that enables its interrupts the *)
(* chip is configured by main alone, access by access; from then on nothing  *)
(* main stores, in whatever bank, is for a register of the configuration.    *)

\* main is in enc28j60_init, before the store of EIE: access 59 of 61.
Boot == prog = "init" /\ pc <= 59 /\ (pc = 1 => ~booted)

Types ==
    /\ DOMAIN regs = Cells /\ DOMAIN phy = PhyCells
    /\ bank \in 0..3 /\ pc \in Nat \ {0} /\ booted \in BOOLEAN
    /\ prog \in {"init", "leds", "count", "write", "idle"}
    /\ prog \notin {"init", "leds"} => booted

\* Which access of init stores a register of the configuration.
StoredAt ==
    [ERXSTL |-> 7, ERXSTH |-> 8, ERXNDL |-> 9, ERXNDH |-> 10,
     MACON1 |-> 16, MACON3 |-> 19, MAMXFLL |-> 20, MAMXFLH |-> 21, MABBIPG |-> 22, MAIPGL |-> 23,
     MAADR1 |-> 25, MAADR2 |-> 26, MAADR3 |-> 27, MAADR4 |-> 28, MAADR5 |-> 29, MAADR6 |-> 30]

\* The bank main has selected for the access it is at.
BankAt(p) ==
    IF p <= 3 \/ p \in 7..13 THEN 0
    ELSE IF p \in 4..6 \/ p \in 25..31 \/ p \in 37..38 \/ p \in 50..53 \/ p \in 58..59 THEN 3
    ELSE 2

\* What main has in hand.
BootAcc ==
    /\ pc \in {15, 18} => acc = {}
    /\ pc = 16 => acc = {0, 2, 3}
    /\ pc = 19 => acc = {0, 1, 4, 5}
    /\ pc = 35 => 0 \in acc
    /\ pc = 41 => 0 \notin acc
    /\ pc \in 45..48 => 8 \in acc
    /\ pc \in 53..56 => acc = {4, 1}

BootRegs ==
    /\ \A r \in DOMAIN StoredAt : pc > StoredAt[r] => regs[Home[r]] = Configured[r]
    /\ regs[Home["ERXFCON"]] = {7, 5, 0} /\ 7 \in regs[Home["ECON2"]]
    /\ pc <= 16 => regs[Home["MACON1"]] = {}
    /\ pc <= 19 => regs[Home["MACON3"]] = {}
    /\ pc > 51 => 2 \in regs[Home["ECON1"]]

\* The transactions with the PHY: main waits for each of them.
ReadUnderWay == \A t \in mii : t.op = "read"
DuplexUnderWay ==
    \E t \in mii : mii = {t} /\ t.op = "write" /\ t.reg = PhyAt["PHCON1"] /\ 8 \in t.bits
EnableUnderWay ==
    \E t \in mii : mii = {t} /\ t.op = "write" /\ t.reg = PhyAt["PHIE"] /\ t.bits = {4, 1}

BootPhy ==
    /\ pc \notin {36, 37, 49, 50, 57, 58} => mii = {}
    /\ pc \in {36, 37} => ReadUnderWay
    /\ pc \in {47, 48} => regs[Home["MIREGADR"]] = PhyAt["PHCON1"]
    /\ pc \in {49, 50} => DuplexUnderWay \/ (mii = {} /\ 8 \in phy[PhyAt["PHCON1"]])
    /\ pc > 50 => 8 \in phy[PhyAt["PHCON1"]]
    /\ pc \in {55, 56} => regs[Home["MIREGADR"]] = PhyAt["PHIE"]
    /\ pc = 56 => regs[Home["MIWRL"]] = {4, 1}
    /\ pc \in {57, 58} => EnableUnderWay \/ (mii = {} /\ phy[PhyAt["PHIE"]] = {4, 1})
    /\ pc = 59 => phy[PhyAt["PHIE"]] = {4, 1}

BootInv ==
    /\ regs[Home["EIE"]] = {}
    /\ pc = 1 => mii = {}
    /\ pc > 1 => bank = BankAt(pc) /\ BootAcc /\ BootRegs /\ BootPhy

\* The chip is configured, and no transaction that is under way changes that.
Kept ==
    /\ \A r \in DOMAIN Configured : regs[Home[r]] = Configured[r]
    /\ 7 \in regs[Home["ECON2"]] /\ 2 \in regs[Home["ECON1"]]
    /\ 8 \in phy[PhyAt["PHCON1"]] /\ phy[PhyAt["PHIE"]] = {4, 1}
    /\ \A t \in mii : t.op = "write" => t.reg \notin {PhyAt["PHCON1"], PhyAt["PHIE"]}

\* A handler leaves bank 0 or 1, so what main still stores in bank 2 it stores with
\* the address it put into MIREGADR itself.
Placed ==
    /\ prog = "write" /\ pc > 1 => bank \in {0, 1}
    /\ prog = "leds" /\ pc \in {17, 18, 37, 38} /\ bank = 2 =>
          regs[Home["MIREGADR"]] = PhyAt["PHLCON"]

Safe == IF Boot THEN BootInv ELSE Kept /\ Placed

\* A handler that begins inside an access may leave anything, up to the next reset.
KeptInv == Types /\ (~torn => Safe)

-----------------------------------------------------------------------------
(* Cells and PHY registers.                                                  *)
LEMMA Places ==
    /\ \A r \in DOMAIN Configured : Home[r] \in Cells
    /\ \A r, q \in DOMAIN Configured : Home[r] = Home[q] => r = q
    /\ \A r \in DOMAIN Configured :
          r \in DOMAIN StoredAt \/ r \in {"ERXFCON", "EIE"}
    /\ \A r \in DOMAIN StoredAt : r \in DOMAIN Configured /\ StoredAt[r] \in 7..30
    /\ \A r, q \in DOMAIN StoredAt : StoredAt[r] = StoredAt[q] => r = q
BY DEF Home, Cells, Configured, StoredAt

LEMMA CellOf ==
    /\ \A r \in DOMAIN Home : Home[r] \in Cells
    /\ \A b \in 0..3 : /\ Cell(b, Address("ECON1")) = Home["ECON1"]
                       /\ Cell(b, Address("ECON2")) = Home["ECON2"]
                       /\ Cell(b, Address("EIE")) = Home["EIE"]
<1>1. \A r \in DOMAIN Home : Home[r] \in Cells
    BY DEF Home, Cells
<1>2. \A b \in 0..3 : /\ Cell(b, Address("ECON1")) = Home["ECON1"]
                       /\ Cell(b, Address("ECON2")) = Home["ECON2"]
                       /\ Cell(b, Address("EIE")) = Home["EIE"]
    BY DEF Home, Cell, Address
<1> QED BY <1>1, <1>2

LEMMA PhyPlaces ==
    /\ PhyAt["PHCON1"] \in PhyCells /\ PhyAt["PHIE"] \in PhyCells
    /\ PhyAt["PHCON1"] # PhyAt["PHIE"]
    /\ PhyAt["PHIR"] # PhyAt["PHCON1"] /\ PhyAt["PHIR"] # PhyAt["PHIE"]
    /\ PhyAt["PHLCON"] # PhyAt["PHCON1"] /\ PhyAt["PHLCON"] # PhyAt["PHIE"]
BY DEF PhyAt, PhyCells

(* What main does, by the kind of its access.                                *)
LEMMA MainDoes ==
    ASSUME Main, Running
    PROVE  /\ pc' = pc + 1 /\ prog' = prog /\ booted' = booted
           /\ Now.do \in {"select", "load", "change", "fill", "store", "storePart", "set", "clear",
                          "await", "reset"}
           /\ Now.do = "select" => bank' = Now.bank /\ UNCHANGED <<regs, phy, mii, acc>>
           /\ Now.do = "load" =>
                 /\ acc' = CASE Now.part = "high" -> Word(Value(At), {})
                             [] Now.part = "low"  -> acc \cup Value(At)
                             [] OTHER             -> Value(At)
                 /\ UNCHANGED <<regs, bank, phy, mii>>
           /\ Now.do = "change" =>
                 acc' = (acc \ Now.drop) \cup Now.add /\ UNCHANGED <<regs, bank, phy, mii>>
           /\ Now.do = "fill" => acc' = Now.bits /\ UNCHANGED <<regs, bank, phy, mii>>
           /\ Now.do = "store" => PutBits(Now.bits)
           /\ Now.do = "storePart" => PutBits(IF Now.part = "high" THEN High(acc) ELSE Low(acc))
           /\ Now.do = "set" => /\ regs' = [regs EXCEPT ![At] = @ \cup Now.bits]
                                /\ UNCHANGED <<bank, phy, mii, acc>>
           /\ Now.do = "clear" => /\ regs' = [regs EXCEPT ![At] = @ \ Now.bits]
                                  /\ UNCHANGED <<bank, phy, mii, acc>>
           /\ Now.do = "await" => /\ (Now.bit \in Value(At)) = Now.is
                                  /\ UNCHANGED <<regs, bank, phy, mii, acc>>
           /\ Now.do = "reset" => Reset
BY DEF Main, Select, Load, Modify, Store, SetOrClear, Await, Reset, Proceed, Does, Reaches

(* The accesses of enc28j60_init.                                            *)
LEMMA InitAccesses ==
    /\ Len(init) = 61
    /\ init[1] = src
    /\ init[2] = wait_until_set("ESTAT", 0)
    /\ init[3] = bank_select(3)
    /\ init[4] = rcr("EREVID")
    /\ init[5] = bfc("ECON1", {2})
    /\ init[6] = bank_select(0)
    /\ init[7] = wcr("ERXSTL", {})
    /\ init[8] = wcr("ERXSTH", {})
    /\ init[9] = wcr("ERXNDL", Low(Bits(rx_buff_end)))
    /\ init[10] = wcr("ERXNDH", High(Bits(rx_buff_end)))
    /\ init[11] = wcr("ERXRDPTH", {})
    /\ init[12] = wcr("ERXRDPTL", {})
    /\ init[13] = bank_select(2)
    /\ init[14] = rcr("MACON1")
    /\ init[15] = Change({}, {0, 2, 3})
    /\ init[16] = StorePart("MACON1", "low")
    /\ init[17] = rcr("MACON3")
    /\ init[18] = Change({}, {0, 1, 4, 5})
    /\ init[19] = StorePart("MACON3", "low")
    /\ init[20] = wcr("MAMXFLL", Low(Bits(max_frame_length)))
    /\ init[21] = wcr("MAMXFLH", High(Bits(max_frame_length)))
    /\ init[22] = wcr("MABBIPG", Bits(21))
    /\ init[23] = wcr("MAIPGL", Bits(18))
    /\ init[24] = bank_select(3)
    /\ init[25] = wcr("MAADR1", Bits(mac[1]))
    /\ init[26] = wcr("MAADR2", Bits(mac[2]))
    /\ init[27] = wcr("MAADR3", Bits(mac[3]))
    /\ init[28] = wcr("MAADR4", Bits(mac[4]))
    /\ init[29] = wcr("MAADR5", Bits(mac[5]))
    /\ init[30] = wcr("MAADR6", Bits(mac[6]))
    /\ init[31] = bank_select(2)
    /\ init[32] = wcr("MIREGADR", PhyAt["PHCON1"])
    /\ init[33] = rcr("MICMD")
    /\ init[34] = Change({}, {0})
    /\ init[35] = StorePart("MICMD", "low")
    /\ init[36] = bank_select(3)
    /\ init[37] = wait_until_clear("MISTAT", 0)
    /\ init[38] = bank_select(2)
    /\ init[39] = rcr("MICMD")
    /\ init[40] = Change({0}, {})
    /\ init[41] = StorePart("MICMD", "low")
    /\ init[42] = LoadPart("MIRDH", "high")
    /\ init[43] = LoadPart("MIRDL", "low")
    /\ init[44] = Change({}, {8})
    /\ init[45] = bank_select(2)
    /\ init[46] = wcr("MIREGADR", PhyAt["PHCON1"])
    /\ init[47] = StorePart("MIWRL", "low")
    /\ init[48] = StorePart("MIWRH", "high")
    /\ init[49] = bank_select(3)
    /\ init[50] = wait_until_clear("MISTAT", 0)
    /\ init[51] = bfs("ECON1", {2})
    /\ init[52] = Fill({4, 1})
    /\ init[53] = bank_select(2)
    /\ init[54] = wcr("MIREGADR", PhyAt["PHIE"])
    /\ init[55] = StorePart("MIWRL", "low")
    /\ init[56] = StorePart("MIWRH", "high")
    /\ init[57] = bank_select(3)
    /\ init[58] = wait_until_clear("MISTAT", 0)
    /\ init[59] = wcr("EIE", {7, 6, 4, 1, 0})
    /\ init[60] = bank_select(1)
    /\ init[61] = wcr("ERXFCON", {7, 5, 0})
BY DEF init, get_erevid, rx_init, mac_init, write_mac, phy_init, interrupt_init, filters_init, phy_change, phy_read, phy_write

LEMMA InitNow ==
    ASSUME prog = "init"
    PROVE  /\ Running <=> pc <= 61
           /\ Now = init[pc]
<1>1. Program["init"] = init
    BY DEF Program
<1> HIDE DEF init
<1> QED BY <1>1, InitAccesses DEF Running, Now

\* Where main selects the banks.
LEMMA InitBanks ==
    \A p \in 2..58 :
        IF init[p].do = "select" THEN BankAt(p + 1) = init[p].bank
                                 ELSE BankAt(p + 1) = BankAt(p)
<1> HIDE DEF init
<1> USE InitAccesses DEF BankAt, bank_select, rcr, wcr, bfs, bfc, wait_until_set, wait_until_clear,
        LoadPart, StorePart, Change, Fill
<1>1. \A p \in 2..15 :
        IF init[p].do = "select" THEN BankAt(p + 1) = init[p].bank
                                 ELSE BankAt(p + 1) = BankAt(p)
    OBVIOUS
<1>2. \A p \in 16..30 :
        IF init[p].do = "select" THEN BankAt(p + 1) = init[p].bank
                                 ELSE BankAt(p + 1) = BankAt(p)
    OBVIOUS
<1>3. \A p \in 31..45 :
        IF init[p].do = "select" THEN BankAt(p + 1) = init[p].bank
                                 ELSE BankAt(p + 1) = BankAt(p)
    OBVIOUS
<1>4. \A p \in 46..58 :
        IF init[p].do = "select" THEN BankAt(p + 1) = init[p].bank
                                 ELSE BankAt(p + 1) = BankAt(p)
    OBVIOUS
<1>5. \A p \in 2..58 : p \in 2..15 \/ p \in 16..30 \/ p \in 31..45 \/ p \in 46..58
    OBVIOUS
<1> HIDE InitAccesses
<1> QED BY <1>1, <1>2, <1>3, <1>4, <1>5, Zenon

LEMMA EarlyStores ==
    \A p \in 2..31 : init[p].do \in {"store", "storePart"} => init[p].at \in 0..13
<1> HIDE DEF init
<1> USE InitAccesses DEF bank_select, rcr, wcr, bfs, bfc, wait_until_set, wait_until_clear,
        LoadPart, StorePart, Change, Fill, Address, Home
<1>1. \A p \in 2..15 : init[p].do \in {"store", "storePart"} => init[p].at \in 0..13
    OBVIOUS
<1>2. \A p \in 16..31 : init[p].do \in {"store", "storePart"} => init[p].at \in 0..13
    OBVIOUS
<1> HIDE InitAccesses
<1>3. \A p \in 2..31 : p \in 2..15 \/ p \in 16..31
    OBVIOUS
<1> QED BY <1>1, <1>2, <1>3, Zenon

-----------------------------------------------------------------------------
(* One step of main in enc28j60_init.                                        *)

\* The cells the configuration is in.
ConfigCells == {Home[r] : r \in DOMAIN Configured} \cup {Home["ECON1"], Home["ECON2"]}

LEMMA Puts ==
    ASSUME Types, NEW c, NEW bits, At = c, PutBits(bits)
    PROVE  /\ regs' = [regs EXCEPT ![c] = bits] /\ DOMAIN regs' = Cells
           /\ \A x \in Cells : x # c => regs'[x] = regs[x]
           /\ c \in Cells => regs'[c] = bits
           /\ UNCHANGED <<bank, phy, acc>>
           /\ c # Home["MIWRH"] /\ (c = Home["MICMD"] => 0 \notin bits) => mii' = mii
BY DEF Types, PutBits

LEMMA ConfigCellsIn == ConfigCells \subseteq Cells
<1>1. Home["ECON1"] \in Cells /\ Home["ECON2"] \in Cells
    BY DEF Home, Cells
<1> QED BY <1>1, Places DEF ConfigCells

\* A store that lands in its register.
LEMMA Lands ==
    ASSUME Types, BootRegs, regs[Home["EIE"]] = {}, pc \in 2..58, pc' = pc + 1,
           NEW r \in DOMAIN StoredAt, StoredAt[r] = pc, PutBits(Configured[r]), At = Home[r]
    PROVE  /\ BootRegs' /\ regs'[Home["EIE"]] = {}
           /\ UNCHANGED <<bank, phy, acc, mii>>
<1>1. Home[r] # Home["MIWRH"] /\ Home[r] # Home["MICMD"] /\ Home[r] # Home["ECON1"]
      /\ Home[r] # Home["ECON2"] /\ Home[r] # Home["ERXFCON"] /\ Home[r] # Home["EIE"]
    BY DEF StoredAt, Home
<1>2. r \in DOMAIN Configured /\ pc \in 7..30
    BY Places
<1>3. /\ \A x \in Cells : x # Home[r] => regs'[x] = regs[x]
      /\ regs'[Home[r]] = Configured[r]
      /\ UNCHANGED <<bank, phy, acc, mii>>
    BY <1>1, <1>2, Places, Puts
<1>4. ASSUME NEW q \in DOMAIN StoredAt, pc' > StoredAt[q]
      PROVE  regs'[Home[q]] = Configured[q]
    <2>1. StoredAt[q] \in 7..30 /\ q \in DOMAIN Configured /\ Home[q] \in Cells
        BY Places
    <2>2. CASE StoredAt[q] = pc
        <3>1. q = r
            BY <2>2, Places
        <3> QED BY <1>3, <3>1
    <2>3. CASE pc > StoredAt[q]
        <3>1. Home[q] # Home[r]
            BY <1>2, <2>1, <2>3, Places
        <3> QED BY <1>3, <2>1, <2>3, <3>1 DEF BootRegs
    <2> QED BY <1>4, <2>1, <2>2, <2>3
<1>5. regs'[Home["ERXFCON"]] = {7, 5, 0} /\ 7 \in regs'[Home["ECON2"]] /\ regs'[Home["EIE"]] = {}
    <2>1. {Home["ERXFCON"], Home["ECON2"], Home["EIE"]} \subseteq Cells
        BY DEF Home, Cells
    <2> QED BY <1>1, <1>3, <2>1 DEF BootRegs
<1>6. /\ pc' <= 16 => regs'[Home["MACON1"]] = {}
      /\ pc' <= 19 => regs'[Home["MACON3"]] = {}
    <2>1. /\ Home["MACON1"] \in Cells /\ Home["MACON3"] \in Cells
          /\ StoredAt["MACON1"] = 16 /\ StoredAt["MACON3"] = 19
          /\ "MACON1" \in DOMAIN Configured /\ "MACON3" \in DOMAIN Configured
        BY DEF Home, Cells, StoredAt, Configured
    <2>2. /\ pc' <= 16 => Home["MACON1"] # Home[r]
          /\ pc' <= 19 => Home["MACON3"] # Home[r]
        BY <1>2, <2>1, Places
    <2> QED BY <1>3, <2>1, <2>2 DEF BootRegs
<1> QED BY <1>2, <1>3, <1>4, <1>5, <1>6 DEF BootRegs

\* A step that changes no register of the configuration.
LEMMA Misses ==
    ASSUME BootRegs, regs[Home["EIE"]] = {}, pc \in 2..58, pc # 51, pc' = pc + 1,
           \A r \in DOMAIN StoredAt : StoredAt[r] # pc,
           \A c \in ConfigCells : c # Home["ECON1"] \/ pc > 51 => regs'[c] = regs[c]
    PROVE  BootRegs' /\ regs'[Home["EIE"]] = {}
<1>1. \A r \in DOMAIN StoredAt : Home[r] \in ConfigCells
    BY Places DEF ConfigCells
<1>2. \A r \in {"ERXFCON", "EIE", "ECON1", "ECON2", "MACON1", "MACON3"} : Home[r] \in ConfigCells
    BY DEF ConfigCells, Configured
<1>3. ASSUME NEW r \in DOMAIN StoredAt, pc' > StoredAt[r]
      PROVE  regs'[Home[r]] = Configured[r]
    <2>1. pc > StoredAt[r] /\ Home[r] # Home["ECON1"]
        BY <1>3, Places DEF StoredAt, Home
    <2> QED BY <1>1, <2>1 DEF BootRegs
<1>4. /\ regs'[Home["ERXFCON"]] = {7, 5, 0} /\ 7 \in regs'[Home["ECON2"]]
      /\ regs'[Home["EIE"]] = {}
      /\ pc' <= 16 => regs'[Home["MACON1"]] = {}
      /\ pc' <= 19 => regs'[Home["MACON3"]] = {}
      /\ pc' > 51 => 2 \in regs'[Home["ECON1"]]
    <2>1. \A r \in {"ERXFCON", "EIE", "ECON2", "MACON1", "MACON3"} : Home[r] # Home["ECON1"]
        BY DEF Home
    <2> QED BY <1>2, <2>1 DEF BootRegs
<1> QED BY <1>3, <1>4 DEF BootRegs

\* The stores of enc28j60_init: those of the configuration reach their registers, the
\* others none of the configuration.
LEMMA InitLands ==
    \A r \in DOMAIN StoredAt :
        LET a == init[StoredAt[r]] IN
        /\ a.do \in {"store", "storePart"} /\ Cell(BankAt(StoredAt[r]), a.at) = Home[r]
        /\ a.do = "store" => a.bits = Configured[r]
        /\ a.do = "storePart" => a.part = "low" /\ r \in {"MACON1", "MACON3"}
<1> HIDE DEF init
<1> DEFINE Hits(r) ==
        LET a == init[StoredAt[r]] IN
        /\ a.do \in {"store", "storePart"} /\ Cell(BankAt(StoredAt[r]), a.at) = Home[r]
        /\ a.do = "store" => a.bits = Configured[r]
        /\ a.do = "storePart" => a.part = "low" /\ r \in {"MACON1", "MACON3"}
<1>1. Hits("ERXSTL") /\ Hits("ERXSTH") /\ Hits("ERXNDL") /\ Hits("ERXNDH")
    <2>1. /\ init[7] = wcr("ERXSTL", {})
          /\ init[8] = wcr("ERXSTH", {})
          /\ init[9] = wcr("ERXNDL", Low(Bits(rx_buff_end)))
          /\ init[10] = wcr("ERXNDH", High(Bits(rx_buff_end)))
        BY InitAccesses, Zenon
    <2> QED BY <2>1 DEF StoredAt, BankAt, wcr, StorePart, Cell, Address, Home, Configured
<1>2. Hits("MACON1") /\ Hits("MACON3")
    <2>1. /\ init[16] = StorePart("MACON1", "low")
          /\ init[19] = StorePart("MACON3", "low")
        BY InitAccesses, Zenon
    <2> QED BY <2>1 DEF StoredAt, BankAt, wcr, StorePart, Cell, Address, Home, Configured
<1>3. Hits("MAMXFLL") /\ Hits("MAMXFLH") /\ Hits("MABBIPG") /\ Hits("MAIPGL")
    <2>1. /\ init[20] = wcr("MAMXFLL", Low(Bits(max_frame_length)))
          /\ init[21] = wcr("MAMXFLH", High(Bits(max_frame_length)))
          /\ init[22] = wcr("MABBIPG", Bits(21))
          /\ init[23] = wcr("MAIPGL", Bits(18))
        BY InitAccesses, Zenon
    <2> QED BY <2>1 DEF StoredAt, BankAt, wcr, StorePart, Cell, Address, Home, Configured
<1>4. Hits("MAADR1") /\ Hits("MAADR2") /\ Hits("MAADR3") /\ Hits("MAADR4") /\ Hits("MAADR5") /\ Hits("MAADR6")
    <2>1. /\ init[25] = wcr("MAADR1", Bits(mac[1]))
          /\ init[26] = wcr("MAADR2", Bits(mac[2]))
          /\ init[27] = wcr("MAADR3", Bits(mac[3]))
          /\ init[28] = wcr("MAADR4", Bits(mac[4]))
          /\ init[29] = wcr("MAADR5", Bits(mac[5]))
          /\ init[30] = wcr("MAADR6", Bits(mac[6]))
        BY InitAccesses, Zenon
    <2> QED BY <2>1 DEF StoredAt, BankAt, wcr, StorePart, Cell, Address, Home, Configured
<1> HIDE DEF Hits
<1>5. \A r \in DOMAIN StoredAt : Hits(r)
    BY <1>1, <1>2, <1>3, <1>4 DEF StoredAt
<1> QED BY <1>5 DEF Hits

LEMMA InitMisses ==
    \A p \in 2..58 :
        (\A r \in DOMAIN StoredAt : StoredAt[r] # p) =>
            /\ init[p].do \in {"store", "storePart"} =>
                   Cell(BankAt(p), init[p].at) \notin ConfigCells
            /\ init[p].do = "set" => p = 51
            /\ init[p].do = "clear" => p = 5
            /\ init[p].do # "reset"
<1> HIDE DEF init
<1> USE InitAccesses DEF bank_select, rcr, wcr, bfs, bfc, wait_until_set, wait_until_clear,
        LoadPart, StorePart, Change, Fill, Address, Home, Cell, BankAt
<1>1. \A p \in 2..58 : init[p].do # "reset" /\ (init[p].do = "set" => p = 51) /\ (init[p].do = "clear" => p = 5)
    OBVIOUS
<1>2. \A p \in 2..58 : init[p].do \in {"store", "storePart"} =>
         p \in {11, 12, 32, 35, 41, 46, 47, 48, 54, 55, 56} \/ p \in 7..10 \/ p \in {16, 19} \cup (20..23) \cup (25..30)
    <2>1. \A p \in 2..30 : init[p].do \in {"store", "storePart"} =>
             p \in {11, 12} \/ p \in 7..10 \/ p \in {16, 19} \cup (20..23) \cup (25..30)
        OBVIOUS
    <2>2. \A p \in 31..58 : init[p].do \in {"store", "storePart"} =>
             p \in {32, 35, 41, 46, 47, 48, 54, 55, 56}
        OBVIOUS
    <2> HIDE InitAccesses
    <2> QED BY <2>1, <2>2
<1>3. \A p \in {11, 12, 32, 35, 41, 46, 47, 48, 54, 55, 56} :
         Cell(BankAt(p), init[p].at) \in {<<0, 12>>, <<0, 13>>, <<2, 18>>, <<2, 20>>, <<2, 22>>, <<2, 23>>}
    <2>1. \A p \in {11, 12, 32, 35, 41} :
             Cell(BankAt(p), init[p].at) \in {<<0, 12>>, <<0, 13>>, <<2, 18>>, <<2, 20>>}
        <3>1. /\ init[11] = wcr("ERXRDPTH", {}) /\ init[12] = wcr("ERXRDPTL", {})
              /\ init[32] = wcr("MIREGADR", PhyAt["PHCON1"])
              /\ init[35] = StorePart("MICMD", "low") /\ init[41] = StorePart("MICMD", "low")
            BY InitAccesses, Zenon
        <3> HIDE InitAccesses
        <3> QED BY <3>1
    <2>2. \A p \in {46, 47, 48, 54, 55, 56} :
             Cell(BankAt(p), init[p].at) \in {<<2, 20>>, <<2, 22>>, <<2, 23>>}
        <3>1. /\ init[46] = wcr("MIREGADR", PhyAt["PHCON1"])
              /\ init[47] = StorePart("MIWRL", "low") /\ init[48] = StorePart("MIWRH", "high")
              /\ init[54] = wcr("MIREGADR", PhyAt["PHIE"])
              /\ init[55] = StorePart("MIWRL", "low") /\ init[56] = StorePart("MIWRH", "high")
            BY InitAccesses, Zenon
        <3> HIDE InitAccesses
        <3> QED BY <3>1
    <2> HIDE InitAccesses
    <2> QED BY <2>1, <2>2
<1> HIDE InitAccesses
<1>5. \A p \in 7..10 \cup {16, 19} \cup (20..23) \cup (25..30) :
         \E r \in DOMAIN StoredAt : StoredAt[r] = p
    BY DEF StoredAt
<1>4. {<<0, 12>>, <<0, 13>>, <<2, 18>>, <<2, 20>>, <<2, 22>>, <<2, 23>>} \cap ConfigCells = {}
    BY DEF ConfigCells, Configured
<1> QED BY <1>1, <1>2, <1>3, <1>4, <1>5

\* What main does at each access of the boot.
LEMMA BootDoes ==
    ASSUME Types, BootInv, prog = "init", pc \in 2..58, Main
    PROVE  /\ Running /\ Now = init[pc] /\ bank = BankAt(pc) /\ bank \in 0..3
           /\ At = Cell(BankAt(pc), init[pc].at)
           /\ pc' = pc + 1 /\ prog' = "init" /\ booted' = booted
           /\ BootAcc /\ BootRegs /\ BootPhy /\ regs[Home["EIE"]] = {}
<1>1. Running /\ Now = init[pc]
    BY InitNow
<1>2. pc > 1 /\ bank = BankAt(pc) /\ BootAcc /\ BootRegs /\ BootPhy /\ regs[Home["EIE"]] = {}
    BY DEF BootInv
<1>3. pc' = pc + 1 /\ prog' = "init" /\ booted' = booted
    BY <1>1, MainDoes
<1>4. At = Cell(BankAt(pc), init[pc].at) /\ bank \in 0..3
    BY <1>1, <1>2 DEF At, Types
<1> QED BY <1>1, <1>2, <1>3, <1>4

LEMMA BootBankKept ==
    ASSUME Types, BootInv, prog = "init", pc \in 2..58, Main
    PROVE  bank' = BankAt(pc')
<1> HIDE DEF init
<1>1. /\ Running /\ Now = init[pc] /\ bank = BankAt(pc) /\ pc' = pc + 1
    BY BootDoes
<1>2. /\ Now.do \in {"select", "load", "change", "fill", "store", "storePart", "set", "clear",
                      "await", "reset"}
      /\ Now.do = "select" => bank' = Now.bank
      /\ Now.do \notin {"select", "reset"} => bank' = bank
    BY <1>1, MainDoes DEF PutBits
<1>3. Now.do # "reset"
    <2>1. init[pc].do # "reset"
        <3>1. CASE \A r \in DOMAIN StoredAt : StoredAt[r] # pc
            BY <3>1, InitMisses
        <3>2. CASE \E r \in DOMAIN StoredAt : StoredAt[r] = pc
            BY <3>2, InitLands
        <3> QED BY <3>1, <3>2
    <2> QED BY <2>1, <1>1
<1>4. IF init[pc].do = "select" THEN BankAt(pc + 1) = init[pc].bank
                                ELSE BankAt(pc + 1) = BankAt(pc)
    BY InitBanks
<1> QED BY <1>1, <1>2, <1>3, <1>4

LEMMA BootRegsKept ==
    ASSUME Types, BootInv, prog = "init", pc \in 2..58, Main
    PROVE  BootRegs' /\ regs'[Home["EIE"]] = {}
<1> HIDE DEF init
<1>1. /\ Running /\ Now = init[pc] /\ At = Cell(BankAt(pc), init[pc].at) /\ pc' = pc + 1
      /\ BootAcc /\ BootRegs /\ regs[Home["EIE"]] = {}
    BY BootDoes
<1>2. CASE \E r \in DOMAIN StoredAt : StoredAt[r] = pc
    <2>1. PICK r \in DOMAIN StoredAt : StoredAt[r] = pc
        BY <1>2
    <2>2. /\ Now.do \in {"store", "storePart"} /\ At = Home[r]
          /\ Now.do = "store" => Now.bits = Configured[r]
          /\ Now.do = "storePart" => Now.part = "low" /\ r \in {"MACON1", "MACON3"}
        BY <1>1, <2>1, InitLands, Zenon
    <2>3. Now.do = "storePart" => Low(acc) = Configured[r]
        <3>1. CASE r = "MACON1"
            <4>1. acc = {0, 2, 3} /\ Configured[r] = {0, 2, 3}
                BY <1>1, <2>1, <3>1 DEF BootAcc, StoredAt, Configured
            <4> QED BY <4>1 DEF Low
        <3>2. CASE r = "MACON3"
            <4>1. acc = {0, 1, 4, 5} /\ Configured[r] = {0, 1, 4, 5}
                BY <1>1, <2>1, <3>2 DEF BootAcc, StoredAt, Configured
            <4> QED BY <4>1 DEF Low
        <3> QED BY <2>2, <3>1, <3>2
    <2>4. PutBits(Configured[r])
        <3>1. CASE Now.do = "store"
            BY <1>1, <2>2, <3>1, MainDoes
        <3>2. CASE Now.do = "storePart"
            BY <1>1, <2>2, <2>3, <3>2, MainDoes
        <3> QED BY <2>2, <3>1, <3>2
    <2> QED BY <1>1, <2>1, <2>2, <2>4, Lands
<1>3. CASE pc = 51
    <2>1. Now.do = "set" /\ Now.bits = {2} /\ At = Home["ECON1"]
        <3>1. init[51] = bfs("ECON1", {2})
            BY InitAccesses, Zenon
        <3> QED BY <1>1, <1>3, <3>1 DEF bfs, Address, Home, Cell
    <2>2. regs' = [regs EXCEPT ![Home["ECON1"]] = @ \cup {2}]
        BY <1>1, <2>1, MainDoes
    <2>3. /\ 2 \in regs'[Home["ECON1"]]
          /\ \A r \in DOMAIN Configured \cup {"ECON2"} : regs'[Home[r]] = regs[Home[r]]
        <3>1. \A r \in DOMAIN Configured \cup {"ECON2"} : Home[r] # Home["ECON1"]
            BY DEF Configured, Home
        <3>2. DOMAIN regs = Cells /\ Home["ECON1"] \in Cells
            BY CellOf DEF Types, Home
        <3>3. \A r \in DOMAIN Configured \cup {"ECON2"} : Home[r] \in Cells
            BY Places, ConfigCellsIn DEF ConfigCells
        <3> QED BY <2>2, <3>1, <3>2, <3>3
    <2>4. /\ \A r \in DOMAIN StoredAt : regs'[Home[r]] = Configured[r]
          /\ regs'[Home["ERXFCON"]] = {7, 5, 0} /\ 7 \in regs'[Home["ECON2"]]
          /\ regs'[Home["EIE"]] = {}
        <3>1. \A r \in DOMAIN StoredAt : r \in DOMAIN Configured /\ pc > StoredAt[r]
            BY <1>3, Places
        <3>2. "ERXFCON" \in DOMAIN Configured /\ "EIE" \in DOMAIN Configured
            BY DEF Configured
        <3> QED BY <1>1, <2>3, <3>1, <3>2 DEF BootRegs
    <2> QED BY <1>1, <1>3, <2>3, <2>4 DEF BootRegs
<1>4. CASE pc # 51 /\ \A r \in DOMAIN StoredAt : StoredAt[r] # pc
    <2>1. /\ Now.do \in {"store", "storePart"} => At \notin ConfigCells
          /\ Now.do # "set" /\ Now.do # "reset" /\ (Now.do = "clear" => pc = 5)
        BY <1>1, <1>4, InitMisses
    <2>2. ASSUME NEW c \in ConfigCells, c # Home["ECON1"] \/ pc > 51
          PROVE  regs'[c] = regs[c]
        <3>1. c \in Cells
            BY ConfigCellsIn
        <3>2. CASE Now.do \in {"store", "storePart"}
            <4>1. \E bits : PutBits(bits)
                BY <1>1, <3>2, MainDoes
            <4> QED BY <2>1, <3>1, <3>2, <4>1, Puts
        <3>3. CASE Now.do = "clear"
            <4>1. At = Home["ECON1"]
                <5>1. init[5] = bfc("ECON1", {2})
                    BY InitAccesses, Zenon
                <5> QED BY <1>1, <2>1, <3>3, <5>1 DEF bfc, Address, Home, Cell
            <4>2. c # Home["ECON1"]
                BY <2>1, <2>2, <3>3
            <4>3. regs' = [regs EXCEPT ![Home["ECON1"]] = @ \ Now.bits]
                BY <1>1, <3>3, <4>1, MainDoes
            <4> QED BY <3>1, <4>2, <4>3 DEF Types
        <3>4. CASE Now.do \in {"select", "load", "change", "fill", "await"}
            BY <1>1, <3>4, MainDoes
        <3> QED BY <1>1, <2>1, <3>2, <3>3, <3>4, MainDoes
    <2> QED BY <1>1, <1>4, <2>2, Misses
<1> QED BY <1>2, <1>3, <1>4

\* The accesses that BootAcc and BootPhy speak of.
LEMMA BootAccesses ==
    /\ \A p \in {14, 17} : init[p].do = "load" /\ init[p].part = "byte"
    /\ \A p \in {15, 18, 34, 40, 44} : init[p].do = "change"
    /\ init[52].do = "fill" /\ init[52].bits = {4, 1}
    /\ init[15].drop = {} /\ init[15].add = {0, 2, 3}
    /\ init[18].drop = {} /\ init[18].add = {0, 1, 4, 5}
    /\ init[34].add = {0}
    /\ init[40].drop = {0} /\ init[40].add = {}
    /\ init[44].drop = {} /\ init[44].add = {8}
    /\ \A p \in {33, 34, 36, 38, 39, 40, 42, 43, 44, 45, 49, 51, 52, 53, 57} :
          init[p].do \in {"select", "load", "change", "fill", "set"}
    /\ \A p \in (45..51) \cup (53..55) :
          init[p].do \notin {"load", "change", "fill", "reset", "clear"}
    /\ \A p \in {32, 46, 54} : init[p].do = "store"
    /\ init[32].bits = PhyAt["PHCON1"] /\ init[46].bits = PhyAt["PHCON1"]
    /\ init[54].bits = PhyAt["PHIE"]
    /\ \A p \in {35, 41, 47, 48, 55, 56} : init[p].do = "storePart"
    /\ \A p \in {35, 41, 47, 55} : init[p].part = "low"
    /\ \A p \in {48, 56} : init[p].part = "high"
    /\ \A p \in {37, 50, 58} : init[p].do = "await" /\ init[p].bit = 0 /\ init[p].is = FALSE
<1> HIDE DEF init
<1>1. /\ init[14] = rcr("MACON1") /\ init[15] = Change({}, {0, 2, 3})
      /\ init[17] = rcr("MACON3") /\ init[18] = Change({}, {0, 1, 4, 5})
      /\ init[34] = Change({}, {0}) /\ init[40] = Change({0}, {})
      /\ init[42] = LoadPart("MIRDH", "high") /\ init[43] = LoadPart("MIRDL", "low")
      /\ init[44] = Change({}, {8}) /\ init[52] = Fill({4, 1})
    BY InitAccesses, Zenon
<1>2. /\ init[33] = rcr("MICMD") /\ init[36] = bank_select(3) /\ init[38] = bank_select(2)
      /\ init[39] = rcr("MICMD") /\ init[45] = bank_select(2) /\ init[49] = bank_select(3)
      /\ init[51] = bfs("ECON1", {2}) /\ init[53] = bank_select(2) /\ init[57] = bank_select(3)
    BY InitAccesses, Zenon
<1>3. /\ init[32] = wcr("MIREGADR", PhyAt["PHCON1"]) /\ init[46] = wcr("MIREGADR", PhyAt["PHCON1"])
      /\ init[54] = wcr("MIREGADR", PhyAt["PHIE"])
      /\ init[35] = StorePart("MICMD", "low") /\ init[41] = StorePart("MICMD", "low")
      /\ init[47] = StorePart("MIWRL", "low") /\ init[55] = StorePart("MIWRL", "low")
      /\ init[48] = StorePart("MIWRH", "high") /\ init[56] = StorePart("MIWRH", "high")
    BY InitAccesses, Zenon
<1>4. /\ init[37] = wait_until_clear("MISTAT", 0) /\ init[50] = wait_until_clear("MISTAT", 0)
      /\ init[58] = wait_until_clear("MISTAT", 0)
    BY InitAccesses, Zenon
<1>5. /\ \A p \in {14, 17} : init[p].do = "load" /\ init[p].part = "byte"
      /\ \A p \in {15, 18, 34, 40, 44} : init[p].do = "change"
      /\ init[52].do = "fill" /\ init[52].bits = {4, 1}
    BY <1>1 DEF rcr, Fill, Change
<1>6. /\ init[15].drop = {} /\ init[15].add = {0, 2, 3}
      /\ init[18].drop = {} /\ init[18].add = {0, 1, 4, 5}
      /\ init[34].add = {0}
      /\ init[40].drop = {0} /\ init[40].add = {}
      /\ init[44].drop = {} /\ init[44].add = {8}
    BY <1>1 DEF Change
<1>7. \A p \in {33, 34, 36, 38, 39, 40, 42, 43, 44, 45, 49, 51, 52, 53, 57} :
          init[p].do \in {"select", "load", "change", "fill", "set"}
    BY <1>1, <1>2 DEF rcr, LoadPart, Change, Fill, bank_select, bfs
<1>8. \A p \in (45..51) \cup (53..55) :
          init[p].do \notin {"load", "change", "fill", "reset", "clear"}
    <2>1. \A p \in (45..51) \cup (53..55) : p \in {45, 46, 47, 48, 49, 50, 51, 53, 54, 55}
        OBVIOUS
    <2>2. /\ init[45].do = "select" /\ init[46].do = "store" /\ init[47].do = "storePart"
          /\ init[48].do = "storePart" /\ init[49].do = "select" /\ init[50].do = "await"
          /\ init[51].do = "set" /\ init[53].do = "select" /\ init[54].do = "store"
          /\ init[55].do = "storePart"
        BY <1>2, <1>3, <1>4 DEF bank_select, wcr, StorePart, wait_until_clear, bfs
    <2> QED BY <2>1, <2>2
<1>9. /\ \A p \in {32, 46, 54} : init[p].do = "store"
      /\ init[32].bits = PhyAt["PHCON1"] /\ init[46].bits = PhyAt["PHCON1"]
      /\ init[54].bits = PhyAt["PHIE"]
    BY <1>3 DEF wcr
<1>10. /\ \A p \in {35, 41, 47, 48, 55, 56} : init[p].do = "storePart"
       /\ \A p \in {35, 41, 47, 55} : init[p].part = "low"
       /\ \A p \in {48, 56} : init[p].part = "high"
    BY <1>3 DEF StorePart
<1>11. \A p \in {37, 50, 58} : init[p].do = "await" /\ init[p].bit = 0 /\ init[p].is = FALSE
    BY <1>4 DEF wait_until_clear
<1> QED BY <1>5, <1>6, <1>7, <1>8, <1>9, <1>10, <1>11, Zenon

\* The cells they reach.
LEMMA BootCells ==
    /\ Cell(BankAt(14), init[14].at) = Home["MACON1"]
    /\ Cell(BankAt(17), init[17].at) = Home["MACON3"]
    /\ \A p \in {32, 46, 54} : Cell(BankAt(p), init[p].at) = Home["MIREGADR"]
    /\ \A p \in {35, 41} : Cell(BankAt(p), init[p].at) = Home["MICMD"]
    /\ \A p \in {37, 50, 58} : Cell(BankAt(p), init[p].at) = Home["MISTAT"]
    /\ \A p \in {47, 55} : Cell(BankAt(p), init[p].at) = Home["MIWRL"]
    /\ \A p \in {48, 56} : Cell(BankAt(p), init[p].at) = Home["MIWRH"]
<1> HIDE DEF init
<1>1. /\ init[14] = rcr("MACON1") /\ init[17] = rcr("MACON3")
      /\ init[32] = wcr("MIREGADR", PhyAt["PHCON1"]) /\ init[46] = wcr("MIREGADR", PhyAt["PHCON1"])
      /\ init[54] = wcr("MIREGADR", PhyAt["PHIE"])
    BY InitAccesses, Zenon
<1>2. /\ init[35] = StorePart("MICMD", "low") /\ init[41] = StorePart("MICMD", "low")
      /\ init[47] = StorePart("MIWRL", "low") /\ init[55] = StorePart("MIWRL", "low")
      /\ init[48] = StorePart("MIWRH", "high") /\ init[56] = StorePart("MIWRH", "high")
      /\ init[37] = wait_until_clear("MISTAT", 0) /\ init[50] = wait_until_clear("MISTAT", 0)
      /\ init[58] = wait_until_clear("MISTAT", 0)
    BY InitAccesses, Zenon
<1>3. /\ Cell(BankAt(14), init[14].at) = Home["MACON1"]
      /\ Cell(BankAt(17), init[17].at) = Home["MACON3"]
      /\ \A p \in {32, 46, 54} : Cell(BankAt(p), init[p].at) = Home["MIREGADR"]
    BY <1>1 DEF rcr, wcr, BankAt, Cell, Address, Home
<1>4. /\ \A p \in {35, 41} : Cell(BankAt(p), init[p].at) = Home["MICMD"]
      /\ \A p \in {37, 50, 58} : Cell(BankAt(p), init[p].at) = Home["MISTAT"]
      /\ \A p \in {47, 55} : Cell(BankAt(p), init[p].at) = Home["MIWRL"]
      /\ \A p \in {48, 56} : Cell(BankAt(p), init[p].at) = Home["MIWRH"]
    BY <1>2 DEF StorePart, wait_until_clear, BankAt, Cell, Address, Home
<1> QED BY <1>3, <1>4

LEMMA BootAccKept ==
    ASSUME Types, BootInv, prog = "init", pc \in 2..58, Main
    PROVE  BootAcc'
<1> HIDE DEF init
<1>1. /\ Running /\ Now = init[pc] /\ At = Cell(BankAt(pc), init[pc].at) /\ pc' = pc + 1
      /\ BootAcc /\ BootRegs /\ BootPhy
    BY BootDoes
<1>2. /\ Now.do = "load" =>
            acc' = CASE Now.part = "high" -> Word(Value(At), {})
                     [] Now.part = "low"  -> acc \cup Value(At)
                     [] OTHER             -> Value(At)
      /\ Now.do = "change" => acc' = (acc \ Now.drop) \cup Now.add
      /\ Now.do = "fill" => acc' = Now.bits
      /\ Now.do \notin {"load", "change", "fill", "reset"} => acc' = acc
    BY <1>1, MainDoes DEF PutBits
<1>3. pc' \in {15, 18} => acc' = {}
    <2>1. CASE pc = 14
        <3>1. At = Home["MACON1"] /\ At # Home["MISTAT"] /\ Now.do = "load" /\ Now.part = "byte"
            BY <1>1, <2>1, BootAccesses, BootCells DEF Home
        <3> QED BY <1>1, <1>2, <2>1, <3>1 DEF Value, BootRegs
    <2>2. CASE pc = 17
        <3>1. At = Home["MACON3"] /\ At # Home["MISTAT"] /\ Now.do = "load" /\ Now.part = "byte"
            BY <1>1, <2>2, BootAccesses, BootCells DEF Home
        <3> QED BY <1>1, <1>2, <2>2, <3>1 DEF Value, BootRegs
    <2> QED BY <1>1, <2>1, <2>2
<1>4. /\ pc' = 16 => acc' = {0, 2, 3}
      /\ pc' = 19 => acc' = {0, 1, 4, 5}
      /\ pc' = 35 => 0 \in acc'
      /\ pc' = 41 => 0 \notin acc'
    <2>1. CASE pc = 15
        BY <1>1, <1>2, <2>1, BootAccesses DEF BootAcc
    <2>2. CASE pc = 18
        BY <1>1, <1>2, <2>2, BootAccesses DEF BootAcc
    <2>3. CASE pc = 34
        BY <1>1, <1>2, <2>3, BootAccesses
    <2>4. CASE pc = 40
        BY <1>1, <1>2, <2>4, BootAccesses
    <2> QED BY <1>1, <2>1, <2>2, <2>3, <2>4
<1>5. pc' \in 45..48 => 8 \in acc'
    <2>1. CASE pc = 44
        BY <1>1, <1>2, <2>1, BootAccesses
    <2>2. CASE pc \in 45..47
        <3>1. 8 \in acc
            BY <1>1, <2>2 DEF BootAcc
        <3> QED BY <1>1, <1>2, <2>2, <3>1, BootAccesses
    <2> QED BY <1>1, <2>1, <2>2
<1>6. pc' \in 53..56 => acc' = {4, 1}
    <2>1. CASE pc = 52
        BY <1>1, <1>2, <2>1, BootAccesses
    <2>2. CASE pc \in 53..55
        <3>1. acc = {4, 1}
            BY <1>1, <2>2 DEF BootAcc
        <3> QED BY <1>1, <1>2, <2>2, <3>1, BootAccesses
    <2> QED BY <1>1, <2>1, <2>2
<1> QED BY <1>3, <1>4, <1>5, <1>6 DEF BootAcc

\* The registers and the transactions of the PHY after an access that does not store in
\* one of MIREGADR, MIWRL, MICMD and MIWRH.
PhySame ==
    /\ UNCHANGED <<mii, phy>>
    /\ \A r \in {"MIREGADR", "MIWRL"} : regs'[Home[r]] = regs[Home[r]]

LEMMA MiiCells ==
    /\ \A r \in {"MIREGADR", "MIWRL", "MIRDH", "MIRDL", "MICMD", "MIWRH"} :
          Home[r] \in Cells /\ Home[r] # Home["ECON1"]
    /\ Home["MIREGADR"] # Home["MIWRL"] /\ Home["MIREGADR"] # Home["MICMD"]
    /\ Home["MIREGADR"] # Home["MIWRH"] /\ Home["MIWRL"] # Home["MICMD"]
    /\ Home["MIWRL"] # Home["MIWRH"] /\ Home["MICMD"] # Home["MIWRH"]
    /\ \A r \in {"MIREGADR", "MIWRL", "MICMD", "MIWRH"} :
          Home[r] # Home["MIRDH"] /\ Home[r] # Home["MIRDL"]
<1>1. \A r \in {"MIREGADR", "MIWRL", "MIRDH", "MIRDL", "MICMD", "MIWRH"} :
          Home[r] \in Cells /\ Home[r] # Home["ECON1"]
    BY DEF Home, Cells
<1>2. /\ Home["MIREGADR"] # Home["MIWRL"] /\ Home["MIREGADR"] # Home["MICMD"]
      /\ Home["MIREGADR"] # Home["MIWRH"] /\ Home["MIWRL"] # Home["MICMD"]
      /\ Home["MIWRL"] # Home["MIWRH"] /\ Home["MICMD"] # Home["MIWRH"]
    BY DEF Home
<1>3. \A r \in {"MIREGADR", "MIWRL", "MICMD", "MIWRH"} :
          Home[r] # Home["MIRDH"] /\ Home[r] # Home["MIRDL"]
    BY DEF Home
<1> QED BY <1>1, <1>2, <1>3

LEMMA BootPhyKept ==
    ASSUME Types, BootInv, prog = "init", pc \in 2..58, Main
    PROVE  BootPhy'
<1> HIDE DEF init
<1>1. /\ Running /\ Now = init[pc] /\ At = Cell(BankAt(pc), init[pc].at) /\ pc' = pc + 1
      /\ BootAcc /\ BootRegs /\ BootPhy
    BY BootDoes
<1>2. CASE pc <= 31
    <2>1. UNCHANGED <<mii, phy>>
        <3>1. CASE Now.do \in {"store", "storePart"}
            <4>1. Now.at \in 0..13
                BY <1>1, <1>2, <3>1, EarlyStores
            <4>2. At # Home["MIWRH"] /\ At # Home["MICMD"]
                BY <4>1 DEF At, Cell, Home
            <4> QED BY <1>1, <3>1, <4>2, MainDoes DEF PutBits
        <3>2. CASE Now.do \in {"select", "load", "change", "fill", "set", "clear", "await"}
            BY <1>1, <3>2, MainDoes
        <3>3. Now.do # "reset"
            <4>1. CASE \A r \in DOMAIN StoredAt : StoredAt[r] # pc
                BY <1>1, <4>1, InitMisses
            <4>2. CASE \E r \in DOMAIN StoredAt : StoredAt[r] = pc
                BY <1>1, <4>2, InitLands
            <4> QED BY <4>1, <4>2
        <3> QED BY <1>1, <3>1, <3>2, <3>3, MainDoes
    <2>2. mii = {}
        BY <1>1, <1>2 DEF BootPhy
    <2> QED BY <1>1, <1>2, <2>1, <2>2 DEF BootPhy
<1>3. CASE pc \in {33, 34, 36, 38, 39, 40, 42, 43, 44, 45, 49, 51, 52, 53, 57}
    <2>1. Now.do \in {"select", "load", "change", "fill", "set"}
        BY <1>1, <1>3, BootAccesses
    <2>2. Now.do = "set" => At = Home["ECON1"]
        <3>1. init[51] = bfs("ECON1", {2})
            BY InitAccesses, Zenon
        <3>2. Now.do = "set" => pc = 51
            <4>1. \A r \in DOMAIN StoredAt : StoredAt[r] # pc
                BY <1>3, Places
            <4> QED BY <1>1, <4>1, InitMisses
        <3> QED BY <1>1, <3>1, <3>2 DEF bfs, Address, Home, Cell
    <2>3. PhySame
        <3>1. CASE Now.do = "set"
            BY <1>1, <2>2, <3>1, MainDoes, MiiCells DEF PhySame, Types
        <3>2. CASE Now.do \in {"select", "load", "change", "fill"}
            BY <1>1, <3>2, MainDoes DEF PhySame
        <3> QED BY <2>1, <3>1, <3>2
    <2>4. /\ ReadUnderWay' <=> ReadUnderWay
          /\ DuplexUnderWay' <=> DuplexUnderWay
          /\ EnableUnderWay' <=> EnableUnderWay
        BY <2>3 DEF PhySame, ReadUnderWay, DuplexUnderWay, EnableUnderWay
    <2> QED BY <1>1, <1>3, <2>3, <2>4 DEF BootPhy, PhySame
<1>4. CASE pc \in {32, 46, 54}
    <2>1. At = Home["MIREGADR"] /\ Now.do = "store"
          /\ (pc # 54 => Now.bits = PhyAt["PHCON1"]) /\ (pc = 54 => Now.bits = PhyAt["PHIE"])
        BY <1>1, <1>4, BootAccesses, BootCells
    <2>2. PutBits(Now.bits)
        BY <1>1, <2>1, MainDoes
    <2>3. regs'[Home["MIREGADR"]] = Now.bits /\ UNCHANGED <<mii, phy>>
        BY <2>1, <2>2, Puts, MiiCells
    <2> QED BY <1>1, <1>4, <2>1, <2>3 DEF BootPhy
<1>5. CASE pc = 35
    <2>1. At = Home["MICMD"] /\ Now.do = "storePart" /\ Now.part = "low"
        BY <1>1, <1>5, BootAccesses, BootCells
    <2>2. PutBits(Low(acc)) /\ 0 \in Low(acc)
        <3>1. 0 \in acc
            BY <1>1, <1>5 DEF BootAcc
        <3> QED BY <1>1, <2>1, <3>1, MainDoes DEF Low
    <2>3. mii' = {[op |-> "read", reg |-> regs[Home["MIREGADR"]],
                   bits |-> Word(Low(acc), regs[Home["MIWRL"]])]} /\ UNCHANGED phy
        BY <2>1, <2>2, MiiCells DEF PutBits
    <2>4. ReadUnderWay'
        BY <2>3 DEF ReadUnderWay
    <2> QED BY <1>1, <1>5, <2>3, <2>4 DEF BootPhy
<1>6. CASE pc \in {37, 50, 58}
    <2>1. At = Home["MISTAT"] /\ Now.do = "await" /\ Now.bit = 0 /\ Now.is = FALSE
        BY <1>1, <1>6, BootAccesses, BootCells
    <2>2. 0 \notin Value(At) /\ UNCHANGED <<regs, mii, phy>>
        BY <1>1, <2>1, MainDoes
    <2>3. mii = {}
        BY <2>1, <2>2 DEF Value
    <2>4. ~DuplexUnderWay /\ ~EnableUnderWay
        BY <2>3 DEF DuplexUnderWay, EnableUnderWay
    <2> QED BY <1>1, <1>6, <2>2, <2>3, <2>4 DEF BootPhy
<1>7. CASE pc = 41
    <2>1. At = Home["MICMD"] /\ Now.do = "storePart" /\ Now.part = "low"
        BY <1>1, <1>7, BootAccesses, BootCells
    <2>2. PutBits(Low(acc)) /\ 0 \notin Low(acc)
        <3>1. 0 \notin acc
            BY <1>1, <1>7 DEF BootAcc
        <3> QED BY <1>1, <2>1, <3>1, MainDoes DEF Low
    <2>3. PhySame
        BY <2>1, <2>2, Puts, MiiCells DEF PhySame
    <2> QED BY <1>1, <1>7, <2>3 DEF BootPhy, PhySame
<1>8. CASE pc \in {47, 55}
    <2>1. At = Home["MIWRL"] /\ Now.do = "storePart" /\ Now.part = "low"
        BY <1>1, <1>8, BootAccesses, BootCells
    <2>2. PutBits(Low(acc))
        BY <1>1, <2>1, MainDoes
    <2>3. regs'[Home["MIWRL"]] = Low(acc) /\ regs'[Home["MIREGADR"]] = regs[Home["MIREGADR"]]
          /\ UNCHANGED <<mii, phy>>
        BY <2>1, <2>2, Puts, MiiCells
    <2>4. CASE pc = 47
        BY <1>1, <2>3, <2>4 DEF BootPhy
    <2>5. CASE pc = 55
        <3>1. Low(acc) = {4, 1}
            BY <1>1, <2>5 DEF BootAcc, Low
        <3> QED BY <1>1, <2>3, <2>5, <3>1 DEF BootPhy
    <2> QED BY <1>8, <2>4, <2>5
<1>9. CASE pc \in {48, 56}
    <2>1. At = Home["MIWRH"] /\ Now.do = "storePart" /\ Now.part = "high"
        BY <1>1, <1>9, BootAccesses, BootCells
    <2>2. PutBits(High(acc))
        BY <1>1, <2>1, MainDoes
    <2>3. mii' = {[op |-> "write", reg |-> regs[Home["MIREGADR"]],
                   bits |-> Word(High(acc), regs[Home["MIWRL"]])]} /\ UNCHANGED phy
        BY <2>1, <2>2 DEF PutBits
    <2>4. CASE pc = 48
        <3>1. 8 \in Word(High(acc), regs[Home["MIWRL"]])
            <4>1. 8 \in acc
                BY <1>1, <2>4 DEF BootAcc
            <4>2. 0 \in High(acc)
                BY <4>1 DEF High
            <4> QED BY <4>2 DEF Word
        <3>2. DuplexUnderWay'
            BY <1>1, <2>3, <2>4, <3>1 DEF DuplexUnderWay, BootPhy
        <3> QED BY <1>1, <2>3, <2>4, <3>2 DEF BootPhy
    <2>5. CASE pc = 56
        <3>1. Word(High(acc), regs[Home["MIWRL"]]) = {4, 1}
            <4>1. acc = {4, 1} /\ regs[Home["MIWRL"]] = {4, 1}
                BY <1>1, <2>5 DEF BootAcc, BootPhy
            <4>2. High({4, 1}) = {}
                BY DEF High
            <4> QED BY <4>1, <4>2 DEF Word
        <3>2. EnableUnderWay'
            BY <1>1, <2>3, <2>5, <3>1 DEF EnableUnderWay, BootPhy
        <3> QED BY <1>1, <2>3, <2>5, <3>2 DEF BootPhy
    <2> QED BY <1>9, <2>4, <2>5
<1>10. \/ pc <= 31 \/ pc \in {32, 46, 54} \/ pc = 35 \/ pc \in {37, 50, 58} \/ pc = 41
       \/ pc \in {33, 34, 36, 38, 39, 40, 42, 43, 44, 45, 49, 51, 52, 53, 57}
       \/ pc \in {47, 55} \/ pc \in {48, 56}
    OBVIOUS
<1> QED BY <1>2, <1>3, <1>4, <1>5, <1>6, <1>7, <1>8, <1>9, <1>10

-----------------------------------------------------------------------------
(* The other programs.                                                       *)

\* What the rest of manager_init runs.
leds == ledb_mode \o leda_mode \o get_erevid

LEMMA LedsAccesses ==
    /\ Len(leds) = 42
    /\ \A p \in 1..42 :
          /\ leds[p].do \in {"select", "load", "change", "store", "storePart", "await"}
          /\ leds[p].do = "select" => leds[p].bank \in {2, 3}
          /\ leds[p].do \in {"store", "storePart"} => leds[p].at \in {18, 20, 22, 23}
          /\ leds[p].do \in {"store", "storePart"} /\ leds[p].at = 23 => p \in {18, 38}
          /\ p \in {16, 36} => leds[p] = wcr("MIREGADR", PhyAt["PHLCON"])
          /\ p \in {17, 37} => leds[p].do = "storePart" /\ leds[p].at = 22
<1>1. /\ Len(leds) = 42
      /\ leds[1] = bank_select(2) /\ leds[2] = wcr("MIREGADR", PhyAt["PHLCON"])
      /\ leds[3] = rcr("MICMD") /\ leds[4] = Change({}, {0})
      /\ leds[5] = StorePart("MICMD", "low") /\ leds[6] = bank_select(3)
      /\ leds[7] = wait_until_clear("MISTAT", 0) /\ leds[8] = bank_select(2)
      /\ leds[9] = rcr("MICMD") /\ leds[10] = Change({0}, {})
      /\ leds[11] = StorePart("MICMD", "low") /\ leds[12] = LoadPart("MIRDH", "high")
      /\ leds[13] = LoadPart("MIRDL", "low") /\ leds[14] = Change(4 .. 7, {4})
      /\ leds[15] = bank_select(2) /\ leds[16] = wcr("MIREGADR", PhyAt["PHLCON"])
      /\ leds[17] = StorePart("MIWRL", "low") /\ leds[18] = StorePart("MIWRH", "high")
      /\ leds[19] = bank_select(3) /\ leds[20] = wait_until_clear("MISTAT", 0)
    BY DEF leds, ledb_mode, leda_mode, get_erevid, phy_change, phy_read, phy_write
<1>2. /\ leds[21] = bank_select(2) /\ leds[22] = wcr("MIREGADR", PhyAt["PHLCON"])
      /\ leds[23] = rcr("MICMD") /\ leds[24] = Change({}, {0})
      /\ leds[25] = StorePart("MICMD", "low") /\ leds[26] = bank_select(3)
      /\ leds[27] = wait_until_clear("MISTAT", 0) /\ leds[28] = bank_select(2)
      /\ leds[29] = rcr("MICMD") /\ leds[30] = Change({0}, {})
      /\ leds[31] = StorePart("MICMD", "low") /\ leds[32] = LoadPart("MIRDH", "high")
      /\ leds[33] = LoadPart("MIRDL", "low") /\ leds[34] = Change(8 .. 11, {8 + 2, 8 + 3})
      /\ leds[35] = bank_select(2) /\ leds[36] = wcr("MIREGADR", PhyAt["PHLCON"])
      /\ leds[37] = StorePart("MIWRL", "low") /\ leds[38] = StorePart("MIWRH", "high")
      /\ leds[39] = bank_select(3) /\ leds[40] = wait_until_clear("MISTAT", 0)
      /\ leds[41] = bank_select(3) /\ leds[42] = rcr("EREVID")
    BY DEF leds, ledb_mode, leda_mode, get_erevid, phy_change, phy_read, phy_write
<1> DEFINE Fine(p) ==
          /\ leds[p].do \in {"select", "load", "change", "store", "storePart", "await"}
          /\ leds[p].do = "select" => leds[p].bank \in {2, 3}
          /\ leds[p].do \in {"store", "storePart"} => leds[p].at \in {18, 20, 22, 23}
          /\ leds[p].do \in {"store", "storePart"} /\ leds[p].at = 23 => p \in {18, 38}
          /\ p \in {16, 36} => leds[p] = wcr("MIREGADR", PhyAt["PHLCON"])
          /\ p \in {17, 37} => leds[p].do = "storePart" /\ leds[p].at = 22
<1> USE DEF bank_select, rcr, wcr, LoadPart, StorePart, Change, wait_until_clear, Address, Home
<1>3. \A p \in 1..20 : Fine(p)
    BY <1>1
<1>4. \A p \in 21..42 : Fine(p)
    BY <1>2
<1> HIDE DEF Fine
<1>5. \A p \in 1..42 : Fine(p)
    BY <1>3, <1>4
<1> USE DEF Fine
<1> QED BY <1>1, <1>5, Zenon

LEMMA WriteAccesses ==
    /\ Len(write) = 11 /\ write[1] = bank_select(0)
    /\ \A p \in 1..11 :
          /\ write[p].do \in {"select", "load", "store", "storePart", "set"}
          /\ write[p].do = "select" => write[p].bank = 0
          /\ write[p].do \in {"store", "storePart"} => write[p].at \in 2..7
          /\ write[p].do = "set" => write[p].at = Address("ECON2")
<1> USE DEF bank_select, bfs, wcr, LoadPart, StorePart, Address, Home
<1>1. /\ Len(write) = 11
      /\ write[1] = bank_select(0)
      /\ write[2] = wcr("ETXSTL", Low(Bits(tx_buff_start)))
      /\ write[3] = wcr("ETXSTH", High(Bits(tx_buff_start)))
      /\ write[4] = bfs("ECON2", Bits(7))
      /\ write[5] = bank_select(0)
      /\ write[6] = wcr("EWRPTL", Low(Bits(tx_buff_start)))
      /\ write[7] = wcr("EWRPTH", High(Bits(tx_buff_start)))
      /\ write[8] = LoadPart("EWRPTH", "high") /\ write[9] = LoadPart("EWRPTL", "low")
      /\ write[10] = StorePart("ETXNDL", "low") /\ write[11] = StorePart("ETXNDH", "high")
    BY DEF write
<1> HIDE DEF write
<1>2. \A p \in 1..11 :
          /\ write[p].do \in {"select", "load", "store", "storePart", "set"}
          /\ write[p].do = "select" => write[p].bank = 0
          /\ write[p].do \in {"store", "storePart"} => write[p].at \in 2..7
          /\ write[p].do = "set" => write[p].at = Address("ECON2")
    BY <1>1
<1> QED BY <1>1, <1>2, Zenon

LEMMA CountAccesses ==
    /\ Len(packet_count) = 2
    /\ packet_count[1].do = "select" /\ packet_count[1].bank = 1
    /\ packet_count[2].do = "load"
BY DEF packet_count, bank_select, rcr

\* The program that runs, and its accesses.
LEMMA LiveNow ==
    ASSUME Types
    PROVE  /\ prog = "leds" => /\ Running <=> pc \in 1..42
                               /\ Now = leds[pc]
           /\ prog = "write" => (Running <=> pc \in 1..11) /\ Now = write[pc]
           /\ prog = "count" => (Running <=> pc \in 1..2) /\ Now = packet_count[pc]
           /\ prog = "idle" => ~Running
<1>1. pc \in Nat \ {0}
    BY DEF Types
<1>2. /\ Program["leds"] = leds /\ Program["write"] = write
      /\ Program["count"] = packet_count /\ Program["idle"] = <<>>
    BY DEF Program, leds
<1>3. /\ Len(leds) = 42 /\ Len(write) = 11 /\ Len(packet_count) = 2 /\ Len(<<>>) = 0
    BY LedsAccesses, WriteAccesses, CountAccesses
<1>4. /\ Running <=> pc <= Len(Program[prog])
      /\ Now = Program[prog][pc]
    BY DEF Running, Now
<1>5. /\ prog = "leds" => (Running <=> pc <= 42) /\ Now = leds[pc]
      /\ prog = "write" => (Running <=> pc <= 11) /\ Now = write[pc]
      /\ prog = "count" => (Running <=> pc <= 2) /\ Now = packet_count[pc]
      /\ prog = "idle" => (Running <=> pc <= 0)
    BY <1>2, <1>3, <1>4, Zenon
<1>6. /\ pc <= 42 <=> pc \in 1..42
      /\ pc <= 11 <=> pc \in 1..11
      /\ pc <= 2 <=> pc \in 1..2
      /\ ~(pc <= 0)
    BY <1>1
<1> QED BY <1>5, <1>6, Zenon

\* Every bank selected is one of the four.
LEMMA BanksSelected ==
    ASSUME Types, Running, Now.do = "select"
    PROVE  Now.bank \in 0..3
<1> HIDE DEF init
<1>1. CASE prog = "init"
    <2>1. pc \in 1..61 /\ Now = init[pc]
        BY <1>1, InitNow DEF Types
    <2>2. CASE pc \in 2..58
        <3>1. init[pc].bank = BankAt(pc + 1)
            BY <2>1, <2>2, InitBanks
        <3> QED BY <2>1, <2>2, <3>1 DEF BankAt
    <2>3. CASE pc \in {1, 59, 60, 61}
        <3>1. /\ init[1] = src /\ init[59] = wcr("EIE", {7, 6, 4, 1, 0})
              /\ init[60] = bank_select(1) /\ init[61] = wcr("ERXFCON", {7, 5, 0})
            BY InitAccesses, Zenon
        <3> QED BY <2>1, <2>3, <3>1 DEF src, wcr, bank_select
    <2> QED BY <2>1, <2>2, <2>3
<1>2. CASE prog = "leds"
    BY <1>2, LiveNow, LedsAccesses
<1>3. CASE prog = "write"
    BY <1>3, LiveNow, WriteAccesses
<1>4. CASE prog = "count"
    BY <1>4, LiveNow, CountAccesses
<1>5. CASE prog = "idle"
    BY <1>5, LiveNow
<1> QED BY <1>1, <1>2, <1>3, <1>4, <1>5 DEF Types

LEMMA TypesKept ==
    ASSUME Types, [Next]_vars
    PROVE  Types'
<1>1. CASE Main /\ Running
    <2>1. pc' = pc + 1 /\ prog' = prog /\ booted' = booted
        BY <1>1, MainDoes
    <2>2. DOMAIN regs' = Cells /\ DOMAIN phy' = PhyCells /\ bank' \in 0..3
        <3>1. CASE Now.do = "select"
            BY <1>1, <3>1, MainDoes, BanksSelected DEF Types
        <3>2. CASE Now.do \in {"load", "change", "fill", "await"}
            BY <1>1, <3>2, MainDoes DEF Types
        <3>3. CASE Now.do \in {"store", "storePart", "set", "clear"}
            BY <1>1, <3>3, MainDoes DEF Types, PutBits
        <3>4. CASE Now.do = "reset"
            BY <1>1, <3>4, MainDoes DEF Types, Reset, Fresh, PhyFresh
        <3> QED BY <1>1, <3>1, <3>2, <3>3, <3>4, MainDoes
    <2> QED BY <2>1, <2>2 DEF Types
<1>2. CASE Main /\ ~Running
    <2>1. Proceed
        BY <1>2 DEF Main, Select, Load, Modify, Store, SetOrClear, Await, Reset, Does, Reaches
    <2>2. UNCHANGED <<regs, bank, phy>> /\ pc' = 1
          /\ booted' = (booted \/ prog = "leds")
        BY <2>1 DEF Proceed
    <2>3. /\ prog = "init" /\ ~booted => prog' = "leds"
          /\ prog = "init" /\ booted => prog' = "idle"
          /\ prog = "leds" \/ prog = "write" => prog' = "idle"
          /\ prog = "count" => prog' \in {"idle", "init"}
          /\ prog = "idle" => prog' \in {"count", "write"}
        BY <2>1 DEF Proceed
    <2>4. /\ prog' \in {"init", "leds", "count", "write", "idle"}
          /\ prog' \notin {"init", "leds"} => booted'
        BY <2>2, <2>3 DEF Types
    <2> QED BY <2>2, <2>4 DEF Types
<1>3. CASE ClockReady
    BY <1>3 DEF ClockReady, Types
<1>4. CASE HandlerInside
    <2>1. PICK left \in Junk :
             \/ regs' = Overheard /\ bank' = 1 /\ UNCHANGED phy
             \/ regs' = left.regs /\ bank' = left.bank /\ phy' = left.phy
        BY <1>4 DEF HandlerInside
    <2>2. left.regs \in [Cells -> SUBSET (0 .. 7)] /\ left.bank \in 0..3
          /\ left.phy \in [PhyCells -> SUBSET (0 .. 15)]
        BY JunkAssumption
    <2>3. DOMAIN Overheard = Cells
        BY DEF Overheard, Types
    <2>4. DOMAIN regs' = Cells /\ DOMAIN phy' = PhyCells /\ bank' \in 0..3
        BY <2>1, <2>2, <2>3 DEF Types
    <2>5. pc' \in {pc, pc + 1} /\ UNCHANGED <<prog, booted>>
        BY <1>4 DEF HandlerInside
    <2> QED BY <2>4, <2>5 DEF Types
<1>5. CASE MiiDone
    BY <1>5 DEF MiiDone, Types
<1>6. CASE Handler
    BY <1>6 DEF Handler, LinkChange, PacketRead, Types
<1>7. CASE UNCHANGED vars
    BY <1>7 DEF vars, Types
<1> QED BY <1>1, <1>2, <1>3, <1>4, <1>5, <1>6, <1>7 DEF Next

-----------------------------------------------------------------------------
(* The invariant holds of every step.                                        *)

LEMMA BootKept ==
    ASSUME Types, BootInv, prog = "init", pc \in 2..58, Main
    PROVE  Boot' /\ BootInv'
<1>1. pc' = pc + 1 /\ prog' = "init"
    BY BootDoes
<1>2. BootRegs' /\ regs'[Home["EIE"]] = {} /\ bank' = BankAt(pc') /\ BootAcc' /\ BootPhy'
    BY BootRegsKept, BootBankKept, BootAccKept, BootPhyKept
<1> QED BY <1>1, <1>2 DEF Boot, BootInv

\* A reset of the chip, by the boot or by the watchdog, begins the configuration anew.
LEMMA ResetKept ==
    ASSUME Types, prog = "init", pc = 1, Main
    PROVE  Boot' /\ BootInv'
<1> HIDE DEF init
<1>1. Running /\ Now.do = "reset"
    <2>1. init[1] = src
        BY InitAccesses, Zenon
    <2> QED BY <2>1, InitNow DEF src
<1>2. Reset /\ pc' = 2 /\ prog' = "init"
    BY <1>1, MainDoes
<1>3. /\ Boot' /\ bank' = BankAt(pc') /\ mii' = {}
    BY <1>2 DEF Boot, BankAt, Reset
<1>4. /\ regs'[Home["EIE"]] = {} /\ regs'[Home["ERXFCON"]] = {7, 5, 0} /\ regs'[Home["ECON2"]] = {7}
      /\ regs'[Home["MACON1"]] = {} /\ regs'[Home["MACON3"]] = {}
    <2>1. PICK early \in {{}, {1}} : regs' = Fresh(early)
        BY <1>2 DEF Reset
    <2>2. /\ Home["EIE"] \in Cells /\ Home["ERXFCON"] \in Cells /\ Home["ECON2"] \in Cells
          /\ Home["MACON1"] \in Cells /\ Home["MACON3"] \in Cells
        BY DEF Home, Cells
    <2>3. Fresh(early)[Home["ERXFCON"]] = {7, 5, 0}
        <3>1. /\ Home["ERXFCON"] # Home["ECON2"] /\ Home["ERXFCON"] # Home["EREVID"]
              /\ Home["ERXFCON"] # Home["ESTAT"]
              /\ Home["ERXFCON"] \notin {Home["ERXNDL"], Home["MAMXFLH"]}
            BY DEF Home
        <3> QED BY <2>2, <3>1 DEF Fresh
    <2>4. Fresh(early)[Home["ECON2"]] = {7}
        <3>1. /\ Home["ECON2"] # Home["ERXFCON"] /\ Home["ECON2"] # Home["EREVID"]
              /\ Home["ECON2"] # Home["ESTAT"]
              /\ Home["ECON2"] \notin {Home["ERXNDL"], Home["MAMXFLH"]}
            BY DEF Home
        <3> QED BY <2>2, <3>1 DEF Fresh
    <2>5. ASSUME NEW r \in {"EIE", "MACON1", "MACON3"}
          PROVE  Fresh(early)[Home[r]] = {}
        <3>1. /\ Home[r] # Home["ERXFCON"] /\ Home[r] # Home["ECON2"] /\ Home[r] # Home["EREVID"]
              /\ Home[r] # Home["ESTAT"] /\ Home[r] \notin {Home["ERXNDL"], Home["MAMXFLH"]}
            BY DEF Home
        <3> QED BY <2>2, <3>1 DEF Fresh
    <2> QED BY <2>1, <2>3, <2>4, <2>5
<1>5. BootAcc'
    BY <1>2 DEF BootAcc
<1>6. BootRegs'
    <2>1. \A r \in DOMAIN StoredAt : ~(pc' > StoredAt[r])
        BY <1>2, Places
    <2> QED BY <1>2, <1>4, <2>1 DEF BootRegs
<1>7. BootPhy'
    BY <1>2, <1>3 DEF BootPhy
<1> QED BY <1>2, <1>3, <1>4, <1>5, <1>6, <1>7 DEF BootInv

\* Only the beginning of enc28j60_init resets the chip.
LEMMA ResetOnly ==
    ASSUME Types, Running, Now.do = "reset"
    PROVE  prog = "init" /\ pc = 1
<1> HIDE DEF init
<1>1. CASE prog = "init"
    <2>1. pc \in 1..61 /\ Now = init[pc]
        BY <1>1, InitNow DEF Types
    <2>2. CASE pc \in 2..58
        <3>1. CASE \A r \in DOMAIN StoredAt : StoredAt[r] # pc
            BY <2>1, <2>2, <3>1, InitMisses
        <3>2. CASE \E r \in DOMAIN StoredAt : StoredAt[r] = pc
            BY <2>1, <3>2, InitLands
        <3> QED BY <3>1, <3>2
    <2>3. CASE pc \in {59, 60, 61}
        <3>1. /\ init[59] = wcr("EIE", {7, 6, 4, 1, 0}) /\ init[60] = bank_select(1)
              /\ init[61] = wcr("ERXFCON", {7, 5, 0})
            BY InitAccesses, Zenon
        <3> QED BY <2>1, <2>3, <3>1 DEF wcr, bank_select
    <2> QED BY <1>1, <2>1, <2>2, <2>3
<1>2. CASE prog = "leds"
    BY <1>2, LiveNow, LedsAccesses
<1>3. CASE prog = "write"
    BY <1>3, LiveNow, WriteAccesses
<1>4. CASE prog = "count"
    BY <1>4, LiveNow, CountAccesses
<1>5. CASE prog = "idle"
    BY <1>5, LiveNow
<1> QED BY <1>1, <1>2, <1>3, <1>4, <1>5 DEF Types

\* The store that lets the chip interrupt completes the configuration.
LEMMA EnabledConfigured ==
    ASSUME Types, BootInv, prog = "init", pc = 59, Main
    PROVE  ~Boot' /\ Kept' /\ Placed'
<1> HIDE DEF init
<1>1. Running /\ Now = init[pc]
    BY InitNow
<1>2. init[59] = wcr("EIE", {7, 6, 4, 1, 0})
    BY InitAccesses, Zenon
<1>3. /\ bank = 3 /\ BootRegs /\ BootPhy
    BY DEF BootInv, BankAt
<1>4. Now.do = "store" /\ Now.bits = {7, 6, 4, 1, 0} /\ At = Home["EIE"]
    BY <1>1, <1>2, <1>3 DEF wcr, At, Cell, Address, Home
<1>5. PutBits({7, 6, 4, 1, 0}) /\ pc' = 60 /\ prog' = "init"
    BY <1>1, <1>4, MainDoes
<1>6. /\ Home["EIE"] \in Cells /\ Home["EIE"] # Home["MIWRH"] /\ Home["EIE"] # Home["MICMD"]
      /\ Home["EIE"] # Home["ECON1"] /\ Home["EIE"] # Home["ECON2"]
      /\ Home["ECON1"] \in Cells /\ Home["ECON2"] \in Cells
    BY DEF Home, Cells
<1>7. /\ regs'[Home["EIE"]] = {7, 6, 4, 1, 0} /\ UNCHANGED <<phy, mii>>
      /\ \A x \in Cells : x # Home["EIE"] => regs'[x] = regs[x]
    BY <1>4, <1>5, <1>6, Puts
<1>8. ASSUME NEW r \in DOMAIN Configured
      PROVE  regs'[Home[r]] = Configured[r]
    <2>1. CASE r = "EIE"
        BY <1>7, <2>1 DEF Configured
    <2>2. CASE r # "EIE"
        <3>1. Home[r] # Home["EIE"] /\ Home[r] \in Cells
            <4>1. "EIE" \in DOMAIN Configured
                BY DEF Configured
            <4> QED BY <2>2, <4>1, Places
        <3>2. CASE r = "ERXFCON"
            BY <1>3, <1>7, <3>1, <3>2 DEF BootRegs, Configured
        <3>3. CASE r # "ERXFCON"
            <4>1. r \in DOMAIN StoredAt /\ pc > StoredAt[r]
                BY <2>2, <3>3, Places
            <4> QED BY <1>3, <1>7, <3>1, <4>1 DEF BootRegs
        <3> QED BY <3>2, <3>3
    <2> QED BY <2>1, <2>2
<1>9. /\ 7 \in regs'[Home["ECON2"]] /\ 2 \in regs'[Home["ECON1"]]
      /\ 8 \in phy'[PhyAt["PHCON1"]] /\ phy'[PhyAt["PHIE"]] = {4, 1} /\ mii' = {}
    BY <1>3, <1>6, <1>7 DEF BootRegs, BootPhy
<1> QED BY <1>5, <1>8, <1>9 DEF Boot, Kept, Placed

\* A store of main that reaches no register of the configuration, or stores in ERXFCON
\* what it holds.
LEMMA StoreKeeps ==
    ASSUME Types, Kept, NEW bits, PutBits(bits),
           At \notin ConfigCells \/ (At = Home["ERXFCON"] /\ bits = {7, 5, 0}),
           At = Home["MIWRH"] =>
               regs[Home["MIREGADR"]] \notin {PhyAt["PHCON1"], PhyAt["PHIE"]}
    PROVE  Kept'
<1>1. /\ \A x \in Cells : x # At => regs'[x] = regs[x]
      /\ At \in Cells => regs'[At] = bits
      /\ UNCHANGED phy
    BY Puts
<1>2. ASSUME NEW x \in ConfigCells
      PROVE  regs'[x] = regs[x]
    <2>1. x \in Cells
        BY ConfigCellsIn
    <2>2. regs[Home["ERXFCON"]] = {7, 5, 0}
        <3>1. "ERXFCON" \in DOMAIN Configured /\ Configured["ERXFCON"] = {7, 5, 0}
            BY DEF Configured
        <3> QED BY <3>1 DEF Kept
    <2>3. At \notin ConfigCells => x # At
        OBVIOUS
    <2> QED BY <1>1, <2>1, <2>2, <2>3
<1>3. \A r \in DOMAIN Configured : regs'[Home[r]] = Configured[r]
    BY <1>2 DEF Kept, ConfigCells
<1>4. regs'[Home["ECON2"]] = regs[Home["ECON2"]] /\ regs'[Home["ECON1"]] = regs[Home["ECON1"]]
    BY <1>2 DEF ConfigCells
<1>5. \A t \in mii' : t.op = "write" => t.reg \notin {PhyAt["PHCON1"], PhyAt["PHIE"]}
    <2>1. CASE At = Home["MIWRH"]
        BY <2>1 DEF PutBits
    <2>2. CASE At # Home["MIWRH"] /\ At = Home["MICMD"] /\ 0 \in bits
        BY <2>2 DEF PutBits
    <2>3. CASE At # Home["MIWRH"] /\ ~(At = Home["MICMD"] /\ 0 \in bits)
        BY <2>3 DEF PutBits, Kept
    <2> QED BY <2>1, <2>2, <2>3
<1> QED BY <1>1, <1>3, <1>4, <1>5 DEF Kept

LEMMA ReadKeeps ==
    ASSUME Kept, UNCHANGED <<regs, phy, mii>>
    PROVE  Kept'
BY DEF Kept

\* main, from the moment the chip may interrupt.
LEMMA LiveKept ==
    ASSUME Types, ~Boot, Kept, Placed, Main
    PROVE  IF Boot' THEN BootInv' ELSE Kept' /\ Placed'
<1> HIDE DEF init
<1>1. CASE ~Running
    <2>1. Proceed
        BY <1>1 DEF Main, Select, Load, Modify, Store, SetOrClear, Await, Reset, Does, Reaches
    <2>2. Kept' /\ pc' = 1
        BY <2>1, ReadKeeps DEF Proceed
    <2>3. ~Boot'
        <3>1. prog' = "init" => booted'
            BY <2>1 DEF Proceed, Types
        <3> QED BY <2>2, <3>1 DEF Boot
    <2> QED BY <2>2, <2>3 DEF Placed
<1>2. CASE Running /\ prog = "init"
    <2>1. pc \in {1, 60, 61} /\ Now = init[pc] /\ prog' = "init" /\ pc' = pc + 1
        BY <1>2, InitNow, MainDoes DEF Types, Boot
    <2>2. CASE pc = 1
        <3>1. Boot' /\ BootInv'
            BY <1>2, <2>2, ResetKept
        <3> QED BY <3>1
    <2>3. CASE pc = 60
        <3>1. init[60] = bank_select(1)
            BY InitAccesses, Zenon
        <3>2. Kept'
            BY <1>2, <2>1, <2>3, <3>1, MainDoes, ReadKeeps DEF bank_select
        <3> QED BY <2>1, <2>3, <3>2 DEF Boot, Placed
    <2>4. CASE pc = 61
        <3>1. init[61] = wcr("ERXFCON", {7, 5, 0})
            BY InitAccesses, Zenon
        <3>2. PutBits({7, 5, 0}) /\ At = <<bank, 24>>
            BY <1>2, <2>1, <2>4, <3>1, MainDoes DEF wcr, At, Cell, Address, Home
        <3>3. At # Home["MIWRH"] /\ (At \notin ConfigCells \/ At = Home["ERXFCON"])
            BY <3>2 DEF Home, ConfigCells, Configured
        <3>4. Kept'
            BY <3>2, <3>3, StoreKeeps
        <3> QED BY <2>1, <2>4, <3>4 DEF Boot, Placed
    <2> QED BY <2>1, <2>2, <2>3, <2>4
<1>3. CASE Running /\ prog = "leds"
    <2>1. pc \in 1..42 /\ Now = leds[pc] /\ prog' = "leds" /\ pc' = pc + 1
        BY <1>3, LiveNow, MainDoes
    <2>2. /\ Now.do \in {"select", "load", "change", "store", "storePart", "await"}
          /\ Now.do \in {"store", "storePart"} => Now.at \in {18, 20, 22, 23}
          /\ Now.do \in {"store", "storePart"} /\ Now.at = 23 => pc \in {18, 38}
          /\ pc \in {16, 36} => Now = wcr("MIREGADR", PhyAt["PHLCON"])
          /\ pc \in {17, 37} => Now.do = "storePart" /\ Now.at = 22
        BY <2>1, LedsAccesses
    <2>3. Kept'
        <3>1. CASE Now.do \in {"store", "storePart"}
            <4>1. PICK bits : PutBits(bits)
                BY <1>3, <3>1, MainDoes
            <4>2. At = <<bank, Now.at>>
                BY <2>2, <3>1 DEF At, Cell
            <4>3. At \notin ConfigCells
                BY <2>2, <3>1, <4>2 DEF Home, ConfigCells, Configured
            <4>4. At = Home["MIWRH"] => bank = 2 /\ Now.at = 23
                BY <4>2 DEF Home
            <4>5. At = Home["MIWRH"] => regs[Home["MIREGADR"]] = PhyAt["PHLCON"]
                BY <1>3, <2>2, <3>1, <4>4 DEF Placed
            <4> QED BY <4>1, <4>3, <4>5, StoreKeeps, PhyPlaces
        <3>2. CASE Now.do \in {"select", "load", "change", "await"}
            BY <1>3, <3>2, MainDoes, ReadKeeps
        <3> QED BY <2>2, <3>1, <3>2
    <2>4. ASSUME pc' \in {17, 18, 37, 38}, bank' = 2
          PROVE  regs'[Home["MIREGADR"]] = PhyAt["PHLCON"]
        <3>1. CASE pc \in {16, 36}
            <4>1. PutBits(PhyAt["PHLCON"]) /\ Now.at = 20
                BY <1>3, <2>2, <3>1, MainDoes DEF wcr, Address, Home
            <4>2. bank = 2 /\ At = Home["MIREGADR"]
                BY <2>4, <4>1 DEF PutBits, At, Cell, Home
            <4> QED BY <4>1, <4>2, Puts, MiiCells
        <3>2. CASE pc \in {17, 37}
            <4>1. PICK bits : PutBits(bits)
                BY <1>3, <2>2, <3>2, MainDoes
            <4>2. bank = 2 /\ At = Home["MIWRL"]
                BY <2>2, <2>4, <3>2, <4>1 DEF PutBits, At, Cell, Home
            <4>3. regs'[Home["MIREGADR"]] = regs[Home["MIREGADR"]]
                BY <4>1, <4>2, Puts, MiiCells
            <4> QED BY <1>3, <3>2, <4>2, <4>3 DEF Placed
        <3> QED BY <2>1, <2>4, <3>1, <3>2
    <2> QED BY <2>1, <2>3, <2>4 DEF Boot, Placed
<1>4. CASE Running /\ prog = "write"
    <2>1. pc \in 1..11 /\ Now = write[pc] /\ prog' = "write" /\ pc' = pc + 1
        BY <1>4, LiveNow, MainDoes
    <2>2. /\ Now.do \in {"select", "load", "store", "storePart", "set"}
          /\ Now.do = "select" => Now.bank = 0
          /\ Now.do \in {"store", "storePart"} => Now.at \in 2..7
          /\ Now.do = "set" => Now.at = Address("ECON2")
          /\ pc = 1 => Now.do = "select"
        BY <2>1, WriteAccesses DEF bank_select
    <2>3. bank' \in {0, 1}
        <3>1. CASE Now.do = "select"
            BY <1>4, <2>2, <3>1, MainDoes
        <3>2. CASE Now.do # "select"
            <4>1. bank' = bank
                BY <1>4, <2>2, <3>2, MainDoes DEF PutBits
            <4>2. pc > 1
                BY <2>1, <2>2, <3>2
            <4> QED BY <1>4, <4>1, <4>2 DEF Placed
        <3> QED BY <3>1, <3>2
    <2>4. Kept'
        <3>1. CASE Now.do \in {"store", "storePart"}
            <4>1. PICK bits : PutBits(bits)
                BY <1>4, <3>1, MainDoes
            <4>2. bank \in {0, 1}
                BY <1>4, <2>1, <2>2, <3>1 DEF Placed
            <4>3. At = <<bank, Now.at>> /\ Now.at \in 2..7
                BY <2>2, <3>1 DEF At, Cell
            <4>4. At \notin ConfigCells /\ At # Home["MIWRH"]
                BY <4>2, <4>3 DEF Home, ConfigCells, Configured
            <4> QED BY <4>1, <4>4, StoreKeeps
        <3>2. CASE Now.do = "set"
            <4>1. At = Home["ECON2"]
                BY <2>2, <3>2, CellOf DEF At, Types
            <4>2. regs' = [regs EXCEPT ![Home["ECON2"]] = @ \cup Now.bits] /\ UNCHANGED <<phy, mii>>
                BY <1>4, <3>2, <4>1, MainDoes
            <4>3. /\ \A x \in Cells : x # Home["ECON2"] => regs'[x] = regs[x]
                  /\ regs[Home["ECON2"]] \subseteq regs'[Home["ECON2"]]
                BY <4>2, CellOf DEF Types
            <4>4. /\ \A r \in DOMAIN Configured : Home[r] # Home["ECON2"]
                  /\ Home["ECON1"] # Home["ECON2"] /\ Home["ECON1"] \in Cells
                BY DEF Configured, Home, Cells
            <4> QED BY <4>2, <4>3, <4>4, Places DEF Kept
        <3>3. CASE Now.do \in {"select", "load"}
            BY <1>4, <3>3, MainDoes, ReadKeeps
        <3> QED BY <2>2, <3>1, <3>2, <3>3
    <2> QED BY <2>1, <2>3, <2>4 DEF Boot, Placed
<1>5. CASE Running /\ prog = "count"
    <2>1. pc \in 1..2 /\ Now = packet_count[pc] /\ prog' = "count" /\ pc' = pc + 1
        BY <1>5, LiveNow, MainDoes
    <2>2. Now.do \in {"select", "load"}
        BY <2>1, CountAccesses
    <2>3. Kept'
        BY <1>5, <2>2, MainDoes, ReadKeeps
    <2> QED BY <2>1, <2>3 DEF Boot, Placed
<1>6. prog = "idle" => ~Running
    BY LiveNow
<1> QED BY <1>1, <1>2, <1>3, <1>4, <1>5, <1>6 DEF Types

-----------------------------------------------------------------------------
(* The oscillator, the PHY and the handler.                                  *)

\* What leaves the cells of the configuration and those of the PHY as they are.
LEMMA BootSame ==
    ASSUME BootInv, UNCHANGED <<bank, mii, prog, pc, acc, booted>>,
           phy'[PhyAt["PHCON1"]] = phy[PhyAt["PHCON1"]], phy'[PhyAt["PHIE"]] = phy[PhyAt["PHIE"]],
           \A r \in DOMAIN Configured \cup {"ECON1", "ECON2", "MIREGADR", "MIWRL"} :
              regs'[Home[r]] = regs[Home[r]]
    PROVE  BootInv'
<1>1. /\ regs'[Home["EIE"]] = regs[Home["EIE"]] /\ regs'[Home["ERXFCON"]] = regs[Home["ERXFCON"]]
      /\ regs'[Home["MACON1"]] = regs[Home["MACON1"]] /\ regs'[Home["MACON3"]] = regs[Home["MACON3"]]
      /\ \A r \in {"ECON1", "ECON2", "MIREGADR", "MIWRL"} : regs'[Home[r]] = regs[Home[r]]
    BY DEF Configured
<1>2. \A r \in DOMAIN StoredAt : regs'[Home[r]] = regs[Home[r]]
    BY Places
<1>3. BootRegs => BootRegs'
    BY <1>1, <1>2 DEF BootRegs
<1>4. BootAcc => BootAcc'
    BY DEF BootAcc
<1>5. BootPhy => BootPhy'
    <2>1. /\ ReadUnderWay' <=> ReadUnderWay
          /\ DuplexUnderWay' <=> DuplexUnderWay
          /\ EnableUnderWay' <=> EnableUnderWay
        BY DEF ReadUnderWay, DuplexUnderWay, EnableUnderWay
    <2> QED BY <1>1, <2>1 DEF BootPhy
<1> QED BY <1>1, <1>3, <1>4, <1>5 DEF BootInv

\* What leaves the registers of the configuration as they are.
LEMMA KeptSame ==
    ASSUME Kept, \A c \in ConfigCells : regs'[c] = regs[c],
           phy'[PhyAt["PHCON1"]] = phy[PhyAt["PHCON1"]], phy'[PhyAt["PHIE"]] = phy[PhyAt["PHIE"]],
           mii' \subseteq mii
    PROVE  Kept'
BY DEF Kept, ConfigCells

LEMMA ClockKeeps ==
    ASSUME Types, Safe, ClockReady
    PROVE  Safe'
<1>1. Boot' <=> Boot
    BY DEF ClockReady, Boot
<1>2. \A c \in Cells : c # Home["ESTAT"] => regs'[c] = regs[c]
    BY DEF ClockReady, Types
<1>3. /\ \A r \in DOMAIN Configured \cup {"ECON1", "ECON2", "MIREGADR", "MIWRL"} :
              Home[r] \in Cells /\ Home[r] # Home["ESTAT"]
    BY DEF Configured, Home, Cells
<1>4. BootInv => BootInv'
    BY <1>2, <1>3, BootSame DEF ClockReady
<1>5. Kept => Kept'
    <2>1. \A c \in ConfigCells : regs'[c] = regs[c]
        BY <1>2, <1>3 DEF ConfigCells
    <2> QED BY <2>1, KeptSame DEF ClockReady
<1>6. Placed => Placed'
    BY <1>2, <1>3 DEF Placed, ClockReady
<1> QED BY <1>1, <1>4, <1>5, <1>6 DEF Safe

\* The PHY ends a transaction: the one main waits for, or one it no longer waits for.
LEMMA PhyDoneKeeps ==
    ASSUME Types, Safe, MiiDone
    PROVE  Safe'
<1>1. (Boot' <=> Boot) /\ UNCHANGED <<bank, prog, pc, acc, booted>> /\ mii' = {}
    BY DEF MiiDone, Boot
<1>2. PICK t \in mii :
         \/ /\ t.op = "write"
            /\ phy' = IF t.reg \in PhyCells \ {PhyAt["PHIR"]}
                      THEN [phy EXCEPT ![t.reg] = t.bits] ELSE phy
            /\ UNCHANGED regs
         \/ /\ t.op = "read"
            /\ \E word : regs' = [regs EXCEPT ![Home["MIRDH"]] = High(word),
                                              ![Home["MIRDL"]] = Low(word)]
            /\ UNCHANGED phy
    BY DEF MiiDone
<1>3. DOMAIN regs = Cells /\ DOMAIN phy = PhyCells
    BY DEF Types
<1>4. \A c \in Cells : c # Home["MIRDH"] /\ c # Home["MIRDL"] => regs'[c] = regs[c]
    BY <1>2, <1>3
<1>5. \A r \in DOMAIN Configured \cup {"ECON1", "ECON2", "MIREGADR", "MIWRL"} :
          Home[r] \in Cells /\ Home[r] # Home["MIRDH"] /\ Home[r] # Home["MIRDL"]
    BY DEF Configured, Home, Cells
<1>6. t.op = "read" => UNCHANGED phy
    BY <1>2
<1>7. \A r \in {"PHCON1", "PHIE"} :
          t.op = "write" => phy'[PhyAt[r]] = IF t.reg = PhyAt[r] THEN t.bits ELSE phy[PhyAt[r]]
    BY <1>2, <1>3, PhyPlaces
<1>8. CASE Boot
    <2>1. BootInv
        BY <1>8 DEF Safe
    <2>2. pc > 1 /\ bank = BankAt(pc) /\ BootAcc /\ BootRegs /\ BootPhy
        <3>1. pc # 1 /\ pc \in Nat \ {0}
            BY <2>1, <1>2 DEF BootInv, Types
        <3> QED BY <2>1, <3>1 DEF BootInv
    <2>3. BootRegs' /\ regs'[Home["EIE"]] = {}
        <3>1. \A r \in DOMAIN Configured \cup {"ECON1", "ECON2"} : regs'[Home[r]] = regs[Home[r]]
            BY <1>4, <1>5
        <3>2. /\ "EIE" \in DOMAIN Configured /\ "ERXFCON" \in DOMAIN Configured
              /\ "MACON1" \in DOMAIN Configured /\ "MACON3" \in DOMAIN Configured
            BY DEF Configured
        <3>3. \A r \in DOMAIN StoredAt : r \in DOMAIN Configured
            BY Places
        <3>4. regs[Home["EIE"]] = {}
            BY <2>1 DEF BootInv
        <3> QED BY <1>1, <2>2, <3>1, <3>2, <3>3, <3>4 DEF BootRegs
    <2>4. \/ pc \in {36, 37} /\ ReadUnderWay
          \/ pc \in {49, 50} /\ DuplexUnderWay
          \/ pc \in {57, 58} /\ EnableUnderWay
        BY <1>2, <2>2 DEF BootPhy
    <2>5. BootAcc'
        BY <1>1, <2>2, <2>4 DEF BootAcc
    <2>6. BootPhy'
        <3>1. CASE pc \in {36, 37} /\ ReadUnderWay
            <4>1. ReadUnderWay'
                BY <1>1 DEF ReadUnderWay
            <4> QED BY <1>1, <2>2, <3>1, <4>1 DEF BootPhy
        <3>2. CASE pc \in {49, 50} /\ DuplexUnderWay
            <4>1. t.op = "write" /\ t.reg = PhyAt["PHCON1"] /\ 8 \in t.bits
                BY <1>2, <3>2 DEF DuplexUnderWay
            <4>2. 8 \in phy'[PhyAt["PHCON1"]]
                BY <1>7, <4>1
            <4> QED BY <1>1, <2>2, <3>2, <4>2 DEF BootPhy
        <3>3. CASE pc \in {57, 58} /\ EnableUnderWay
            <4>1. t.op = "write" /\ t.reg = PhyAt["PHIE"] /\ t.bits = {4, 1}
                BY <1>2, <3>3 DEF EnableUnderWay
            <4>2. phy'[PhyAt["PHIE"]] = {4, 1} /\ phy'[PhyAt["PHCON1"]] = phy[PhyAt["PHCON1"]]
                BY <1>7, <4>1, PhyPlaces
            <4> QED BY <1>1, <2>2, <3>3, <4>2 DEF BootPhy
        <3> QED BY <2>4, <3>1, <3>2, <3>3
    <2> QED BY <1>1, <1>8, <2>2, <2>3, <2>5, <2>6 DEF Safe, BootInv
<1>9. CASE ~Boot
    <2>1. Kept /\ Placed
        BY <1>9 DEF Safe
    <2>2. \A r \in {"PHCON1", "PHIE"} : phy'[PhyAt[r]] = phy[PhyAt[r]]
        <3>1. t.op = "write" => t.reg \notin {PhyAt["PHCON1"], PhyAt["PHIE"]}
            BY <1>2, <2>1 DEF Kept
        <3> QED BY <1>2, <1>6, <1>7, <3>1
    <2>3. \A c \in ConfigCells : regs'[c] = regs[c]
        BY <1>4, <1>5 DEF ConfigCells
    <2>4. Kept'
        BY <1>1, <2>1, <2>2, <2>3, KeptSame
    <2>5. Placed'
        BY <1>1, <1>4, <1>5, <2>1 DEF Placed
    <2> QED BY <1>1, <1>9, <2>4, <2>5 DEF Safe
<1> QED BY <1>8, <1>9

\* The handler runs when the chip may interrupt, so after the boot; it leaves bank 0 or 1.
LEMMA HandlerKeeps ==
    ASSUME Types, Safe, Handler
    PROVE  Safe'
<1>1. (Boot' <=> Boot) /\ UNCHANGED <<phy, prog, pc>>
    BY DEF Handler, Boot
<1>2. ~Boot /\ Kept /\ Placed
    BY DEF Safe, Handler, BootInv
<1>3. mii' \subseteq mii /\ bank' \in {0, 1}
    BY DEF Handler
<1>4. DOMAIN regs = Cells
    BY DEF Types
<1> DEFINE touched == {Home[r] : r \in {"MIREGADR", "MICMD", "MIWRL", "MIWRH", "MIRDL", "MIRDH",
                                        "ERDPTL", "ERDPTH", "ERXRDPTL", "ERXRDPTH", "ECON2"}}
<1>5. /\ \A c \in Cells : c \notin touched => regs'[c] = regs[c]
      /\ 7 \in regs[Home["ECON2"]] => 7 \in regs'[Home["ECON2"]]
    <2> DEFINE Harmless(file) ==
            /\ DOMAIN file = Cells
            /\ \A c \in Cells : c \notin touched => file[c] = regs[c]
            /\ file[Home["ECON2"]] = regs[Home["ECON2"]]
    <2>1. ASSUME NEW status
          PROVE  Harmless(LinkChange(status)) /\ Harmless(regs)
        <3>1. \A r \in {"MIREGADR", "MICMD", "MIWRL", "MIWRH", "MIRDL", "MIRDH"} :
                 Home[r] # Home["ECON2"]
            BY DEF Home
        <3>2. DOMAIN LinkChange(status) = Cells
            BY <1>4 DEF LinkChange
        <3>3. LinkChange(status)[Home["ECON2"]] = regs[Home["ECON2"]]
            BY <1>4, <3>1, ConfigCellsIn DEF LinkChange, ConfigCells
        <3>4. ASSUME NEW c \in Cells, c \notin touched
              PROVE  LinkChange(status)[c] = regs[c]
            <4>1. /\ c # Home["MIREGADR"] /\ c # Home["MICMD"] /\ c # Home["MIWRL"]
                  /\ c # Home["MIWRH"] /\ c # Home["MIRDL"] /\ c # Home["MIRDH"]
                BY <3>4
            <4> HIDE DEF touched
            <4> QED BY <1>4, <4>1 DEF LinkChange
        <3> QED BY <1>4, <3>2, <3>3, <3>4
    <2>2. ASSUME NEW file, Harmless(file), NEW n
          PROVE  /\ \A c \in Cells : c \notin touched => PacketRead(file, n)[c] = regs[c]
                 /\ 7 \in regs[Home["ECON2"]] => 7 \in PacketRead(file, n)[Home["ECON2"]]
        <3>1. \A r \in {"ERDPTL", "ERDPTH", "ERXRDPTL", "ERXRDPTH"} : Home[r] # Home["ECON2"]
            BY DEF Home
        <3>2. Home["ECON2"] \in Cells
            BY CellOf DEF Home
        <3> QED BY <2>2, <3>1, <3>2 DEF PacketRead
    <2>3. \E file \in {LinkChange(status) : status \in LinkStatus} \cup {regs} :
             regs' = file \/ \E n \in NextPointers : regs' = PacketRead(file, n)
        BY DEF Handler
    <2> QED BY <2>1, <2>2, <2>3
<1>6. /\ \A r \in DOMAIN Configured \cup {"ECON1"} : Home[r] \in Cells /\ Home[r] \notin touched
    BY DEF Configured, Home, Cells
<1>7. Kept'
    BY <1>1, <1>2, <1>3, <1>5, <1>6 DEF Kept
<1>8. Placed'
    BY <1>3 DEF Placed
<1> QED BY <1>1, <1>2, <1>7, <1>8 DEF Safe

-----------------------------------------------------------------------------
\* The inductive invariant of the configuration.
THEOREM KeptInvariant == Spec => []KeptInv
<1>1. Init => KeptInv
    <2> SUFFICES ASSUME Init PROVE KeptInv
        OBVIOUS
    <2>1. Types
        <3>1. DOMAIN regs = Cells /\ DOMAIN phy = PhyCells
            BY DEF Init, Fresh, PhyFresh
        <3>2. bank \in 0..3 /\ pc \in Nat \ {0} /\ prog = "init"
            BY DEF Init
        <3>3. booted \in BOOLEAN
            BY Zenon DEF Init
        <3> QED BY <3>1, <3>2, <3>3 DEF Types
    <2>2. Boot
        BY DEF Init, Boot
    <2>3. regs[Home["EIE"]] = {}
        <3>1. /\ Home["EIE"] # Home["ERXFCON"] /\ Home["EIE"] # Home["ECON2"]
              /\ Home["EIE"] # Home["EREVID"] /\ Home["EIE"] # Home["ESTAT"]
              /\ Home["EIE"] \notin {Home["ERXNDL"], Home["MAMXFLH"]} /\ Home["EIE"] \in Cells
            BY DEF Home, Cells
        <3> QED BY <3>1 DEF Init, Fresh
    <2>4. pc = 1 /\ mii = {}
        BY DEF Init
    <2> QED BY <2>1, <2>2, <2>3, <2>4 DEF KeptInv, Safe, BootInv
<1>2. KeptInv /\ [Next]_vars => KeptInv'
    <2> SUFFICES ASSUME KeptInv, [Next]_vars PROVE KeptInv'
        OBVIOUS
    <2>1. Types /\ Types'
        BY TypesKept DEF KeptInv
    <2>2. ASSUME Main, ~torn'
          PROVE  Safe'
        <3>1. CASE Reset
            <4>1. prog = "init" /\ pc = 1
                BY <2>1, <3>1, ResetOnly DEF Reset, Reaches
            <4> QED BY <2>1, <2>2, <4>1, ResetKept DEF Safe
        <3>2. CASE ~Reset
            <4>1. torn' = torn
                BY <2>2, <3>2 DEF Main, Select, Load, Modify, Store, SetOrClear, Await, Proceed, Does
            <4>2. Safe
                BY <2>2, <4>1 DEF KeptInv
            <4>3. CASE Boot
                <5>1. BootInv /\ prog = "init" /\ pc \in 1..59
                    BY <2>1, <4>2, <4>3 DEF Safe, Boot, Types
                <5>2. CASE pc = 1
                    BY <2>1, <2>2, <5>1, <5>2, ResetKept DEF Safe
                <5>3. CASE pc \in 2..58
                    BY <2>1, <2>2, <5>1, <5>3, BootKept DEF Safe
                <5>4. CASE pc = 59
                    BY <2>1, <2>2, <5>1, <5>4, EnabledConfigured DEF Safe
                <5> QED BY <5>1, <5>2, <5>3, <5>4
            <4>4. CASE ~Boot
                BY <2>1, <2>2, <4>2, <4>4, LiveKept DEF Safe
            <4> QED BY <4>3, <4>4
        <3> QED BY <3>1, <3>2
    <2>3. CASE ClockReady
        BY <2>1, <2>3, ClockKeeps DEF KeptInv, ClockReady
    <2>4. CASE HandlerInside
        BY <2>1, <2>4 DEF KeptInv, HandlerInside
    <2>5. CASE MiiDone
        BY <2>1, <2>5, PhyDoneKeeps DEF KeptInv, MiiDone
    <2>6. CASE Handler
        BY <2>1, <2>6, HandlerKeeps DEF KeptInv, Handler
    <2>7. CASE UNCHANGED vars
        <3>1. BootInv => BootInv'
            BY <2>7, BootSame DEF vars
        <3>2. (Boot' <=> Boot) /\ (Kept => Kept') /\ (Placed => Placed') /\ torn' = torn
            BY <2>7 DEF vars, Boot, Kept, Placed
        <3> QED BY <2>1, <3>1, <3>2 DEF KeptInv, Safe
    <2>8. Main => KeptInv'
        BY <2>1, <2>2 DEF KeptInv
    <2> QED BY <2>3, <2>4, <2>5, <2>6, <2>7, <2>8 DEF Next
<1> QED BY <1>1, <1>2, PTL DEF Spec

\* From the moment the chip may interrupt, and until a handler begins inside an access of
\* main, it is configured as enc28j60_init means it: what main stores in a bank the
\* handler selected, and what the handler does between two accesses of main, reaches no
\* register of the configuration; and whatever a handler inside an access left, the next
\* reset and enc28j60_init configure the chip again.  For every layout of the buffer,
\* frame length and address, any junk, any number of runs of the handler.
THEOREM ConfigurationKept == Spec => []ConfigKept
<1>1. KeptInv => ConfigKept
    <2> SUFFICES ASSUME KeptInv, 7 \in regs[Home["EIE"]], ~torn
                 PROVE  /\ \A r \in DOMAIN Configured : regs[Home[r]] = Configured[r]
                        /\ 7 \in regs[Home["ECON2"]] /\ 2 \in regs[Home["ECON1"]]
                        /\ 8 \in phy[PhyAt["PHCON1"]] /\ phy[PhyAt["PHIE"]] = {4, 1}
        BY DEF ConfigKept
    <2>1. Kept
        BY DEF KeptInv, Safe, BootInv
    <2> QED BY <2>1 DEF Kept
<1> QED BY <1>1, KeptInvariant, PTL
=============================================================================
