------------------------------- MODULE MCMigrate -------------------------------
(* A new file.                                                             *)
EXTENDS Migrate

NewFileSpec == FairSpec /\ schema = 0

===============================================================================
