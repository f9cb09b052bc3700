------------------------------ MODULE MCRelay -------------------------------
(***************************************************************************)
(* Instance of Relay for TLC: one value of a field beside the default, and *)
(* every way to fill in some of the fields of a message.                   *)
(***************************************************************************)
EXTENDS Relay

MCTexts == {"a"}

RECURSIVE Full(_)

\* Every field filled in.
Full(T) ==
    [Create(T) EXCEPT !.fields =
        [n \in DOMAIN T |-> IF IsScalar(T[n]) \/ T[n].how = "texts"
                            THEN <<Scalar(CHOOSE t \in Texts : TRUE)>> ELSE <<Full(T[n].of)>>]]

Options(f) ==
    CASE IsScalar(f) -> {<<Scalar(t)>> : t \in Texts \cup {Zero}}
      [] f.how = "texts" -> {<<>>} \cup {<<Scalar(t), Empty>> : t \in Texts}
      [] f.how = "messages" -> {<<>>, <<Create(f.of)>>, <<Full(f.of), Create(f.of)>>}
      [] OTHER -> {<<>>, <<Create(f.of)>>, <<Full(f.of)>>}

\* At most one member of a choice.
MCSample(T) ==
    LET All == FoldSet(LAMBDA n, S : {[m EXCEPT !.fields[n] = v] : m \in S, v \in Options(T[n])},
                       {Create(T)}, DOMAIN T)
        ChosenIn(m) == {n \in DOMAIN T : T[n].how = "choice" /\ m.fields[n] # <<>>}
    IN {m \in All : \A n, k \in ChosenIn(m) : n = k}
=============================================================================
