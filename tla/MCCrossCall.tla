---------------------------- MODULE MCCrossCall ----------------------------
\* Reference parameters after a hidden return value, a register and an
\* object; around a register; a function beside an object.
EXTENDS CrossCall

MCSignatures ==
    {[ret |-> "hidden", params |-> <<"value", "object", "ref">>],
     [ret |-> "value",  params |-> <<"ref", "value", "ref">>],
     [ret |-> "void",   params |-> <<"func", "object">>]}
=============================================================================
