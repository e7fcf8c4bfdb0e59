---- MODULE MCEthInit ----
EXTENDS EthInit

\* manager.c's config.mac.
MCmac == <<170, 170, 164, 82, 55, 60>>

\* Every register and every word that is read is junk, and the chip still interrupts.
MCJunk == {[regs |-> [c \in Cells |-> {3, 7}], bank |-> 2, phy |-> [PhyFresh EXCEPT ![PhyAt["PHCON1"]] = {14}],
            acc |-> {0, 14}]}
====
