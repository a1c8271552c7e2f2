------------------------- MODULE MCSettingsManager -------------------------
(***************************************************************************)
(* Two firmware images.  v1 knows key "a"; v2 adds "b", requires it, has a  *)
(* cross-field rule (on_validate) and migrates v1 documents, except one it  *)
(* cannot express.                                                          *)
(***************************************************************************)
EXTENDS SettingsManager, TLC

MCKeys == {"a", "b"}
MCVals == {1, 2}
MCVersions == {1, 2}

Doc(a, b) == ("a" :> a) @@ ("b" :> b)
AllDocs == [MCKeys -> MCVals \cup {Absent}]

MCDesc ==
    [f \in Fw |-> [c \in Comp |->
        IF f = "v1"
        THEN [version |-> 1, props |-> [k \in MCKeys |-> MCVals], required |-> {"a"},
              defaults |-> Doc(1, Absent), on_validate |-> AllDocs,
              migrate |-> [x \in Files |-> NULL]]
        ELSE [version |-> 2, props |-> [k \in MCKeys |-> MCVals], required |-> {"a", "b"},
              defaults |-> Doc(1, 1), on_validate |-> AllDocs \ {Doc(2, 2)},
              migrate |-> [x \in Files |-> IF x.data = Doc(2, 2) THEN NULL
                                           ELSE [x.data EXCEPT !["b"] = 1]]]]]

MCInputs == {Doc(2, Absent), Doc(1, 2), Doc(2, 2)}
MCFw1 == {"v1"}
MCFw2 == {"v1", "v2"}
=============================================================================
