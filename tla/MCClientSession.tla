--------------------------- MODULE MCClientSession ---------------------------
(* Constants for model-checking the sessions of one client. *)
EXTENDS ClientSession

\* The address range of two operations and two objects behind ta_head; value
\* parameters hold only offsets.
MCOpAddrs == {11, 12}
MCObjAddrs == {13, 14}

Values == {ValueAttr("A", 0, 5)}
Refs == {RefAttr("B", << >>), RefAttr("B", <<1>>), RefAttr("C", <<2, 3, 4, 5, 6>>), NullAttr("D", 9)}
Attrs == Values \cup Refs

\* What clients pass: a key, and the attributes of a key pair.
MCAttrLists == {<<RefAttr("B", <<1>>), ValueAttr("A", 0, 5)>>}

\* All lists of at most three attributes.
MCPackLists == {<< >>} \cup {<<a>> : a \in Attrs} \cup {<<a, b>> : a, b \in Attrs}
                    \cup {<<a, b, c>> : a, b, c \in Attrs}

Raw(len, ps) == [len |-> len, count |-> Len(ps), packed |-> ps, bytes |-> << >>]
Ref(a, b) == [id |-> "B", value |-> FALSE, a |-> a, b |-> b]

\* Too short for a count or for the array, and references that end at and behind
\* the end of the buffer.
MCRawBuffers ==
    {Raw(3, << >>), Raw(4, << >>), Raw(4, <<Ref(0, 0)>>), Raw(20, <<Ref(0, 0), Ref(0, 0)>>),
     Raw(20, <<Ref(16, 4)>>), Raw(20, <<Ref(16, 5)>>), Raw(20, <<Ref(0, 5)>>), Raw(20, <<Ref(21, 0)>>)}

\* ret and reply are left out: every step that uses them has set them itself, and no
\* property is about them.
View == <<session, ops, objs, alive, strayed, clientVars, aesVars, shaVars, socketVars>>
=============================================================================
