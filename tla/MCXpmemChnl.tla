---------------------------- MODULE MCXpmemChnl -----------------------------
(* Instances of XpmemChnl for TLC: buffers, and where things are mapped.    *)
EXTENDS XpmemChnl

\* Two buffers with a gap between them, and two that touch.
TwoBuffers == {[addr |-> 2, len |-> 2], [addr |-> 5, len |-> 1]}
Adjacent == {[addr |-> 2, len |-> 2], [addr |-> 4, len |-> 2]}
OneBuffer == {[addr |-> 2, len |-> 2]}

=============================================================================
