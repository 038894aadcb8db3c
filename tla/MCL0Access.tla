---------------------------- MODULE MCL0Access ----------------------------
(* Instances of L0Access for TLC. *)
EXTENDS L0Access

File(times) == [times |-> times, claim |-> Len(times)]
NoClaim(times) == [times |-> times, claim |-> 0]

\* Two data sets, one of three files and one of one.
TwoSets == [
    A |-> <<File(<<1>>), File(<<3, 5>>), File(<<7>>)>>,
    B |-> <<File(<<2>>)>>]

\* A data set with footers and a header without a count, and one of EOS.
TwoKinds == [
    A |-> <<File(<<1, 3>>), NoClaim(<<5, 6>>), File(<<8>>)>>,
    B |-> <<File(<<2, 3>>), File(<<4>>)>>]

\* A data set whose second file claims no packets, and one that is right.
ZeroClaim == [
    A |-> <<File(<<1>>), NoClaim(<<3, 5, 6>>), File(<<7>>)>>,
    B |-> <<File(<<2>>)>>]
===========================================================================
