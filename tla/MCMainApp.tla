----------------------------- MODULE MCMainApp -----------------------------
(* Model values for checking MainApp: the classes of responser12.cpp.       *)
EXTENDS MainApp

FunctionsOfMain ==
  [r \in Responsers |->
     IF r = res1_instance THEN {R1_FUN1, R1_FUN2} ELSE {R2_FUN1, R2_FUN2}]
=============================================================================
