------------------------------ MODULE MCLocal ------------------------------
(* Small instances of the components whose state stays on this machine: the *)
(* media caches, the configuration with its secrets, the migrations of the  *)
(* database, and the typing indicators, which are never stored.  They share *)
(* no state, so a behaviour follows one of them (focus) while the others    *)
(* rest at their beginning.                                                 *)
EXTENDS Media, Configuration, Migrate, Typing

VARIABLE focus
localVars == <<mediaVars, configVars, migrateVars, typingVars, focus>>

\* Media: a photograph and a picture that do not fit the memory cache
\* together; the picture of one scope fills the disk cache.
TwoKeys == {"face", "pic"}
FileOfKey == [k \in TwoKeys |-> IF k = "face" THEN "face file" ELSE "pic file"]
OneUnit == [f \in {"face file", "pic file"} |-> 1]
Weights == [k \in TwoKeys |-> IF k = "face" THEN 1 ELSE 2]

LocalInit ==
  /\ focus \in {"media", "configuration", "migrations", "typing"}
  /\ MediaInit /\ ConfigInit /\ MigrateInit /\ TypingInit
  /\ focus # "migrations" => searchDerived /\ shipped = FirstSchema
  /\ focus # "typing" => typingRoom = "a"

LocalNext ==
  /\ UNCHANGED focus
  /\ \/ /\ focus = "media" /\ MediaNext
        /\ UNCHANGED <<configVars, migrateVars, typingVars>>
     \/ /\ focus = "configuration" /\ ConfigNext
        /\ UNCHANGED <<mediaVars, migrateVars, typingVars>>
     \/ /\ focus = "migrations" /\ MigrateNextStep
        /\ UNCHANGED <<mediaVars, configVars, typingVars>>
     \/ /\ focus = "typing" /\ TypingNext
        /\ UNCHANGED <<mediaVars, configVars, migrateVars>>

LocalSpec == LocalInit /\ [][LocalNext]_localVars
=============================================================================
