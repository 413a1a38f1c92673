-------------------------------- MODULE MCAccess --------------------------------
\* Access for TLC: two tabs, of one client or of two.
EXTENDS Access, TLC

OneOrTwo == {[t \in Tab |-> "a"], "t1" :> "a" @@ "t2" :> "b"}
Asked == "t1" :> {"account", "api", "login", "forgot"} @@ "t2" :> {"home"}
MaxAttempts == [login |-> 2, reset |-> 1]
Windows == [login |-> 2, reset |-> 1]
=============================================================================
