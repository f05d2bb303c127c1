--------------------------- MODULE MCShareStorage ---------------------------
EXTENDS ShareStorage

CONSTANTS outer, inner, other

\* Three directories, one inside another.
OuterInnerOther == {<<d, e>> \in Directory \X Directory : d = e \/ {d, e} = {outer, inner}}
=============================================================================
