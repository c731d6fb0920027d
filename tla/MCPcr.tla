------------------------------- MODULE MCPcr -------------------------------
(***************************************************************************)
(* Instances of Pcr.  PCR 0 is static and measures the H-CRTM, PCR 17 the  *)
(* dynamic root, PCR 18 is reset with it and PCR 23 can be reset by        *)
(* applications.                                                           *)
(***************************************************************************)
EXTENDS Pcr

CONSTANTS sha1, sha256, d1

FourPcrs == {0, 17, 18, 23}

\* Turn a bank off, or ask for what PCR_Allocate refuses.
BankRequests == {[b \in {sha1} |-> {}], [b \in {sha1, sha256} |-> PcrSet \ {17}]}

\* Few PCR are measured into at a time.
FewMeasured == Cardinality({x \in Banks \X PcrSet : pcrs[x[1]][x[2]].log # <<>>}) <= 2
=============================================================================
