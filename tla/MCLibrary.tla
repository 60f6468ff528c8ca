------------------------------ MODULE MCLibrary ------------------------------
(* The parts of the library that do not know of each other, checked one at *)
(* a time: a behaviour picks one of them and leaves the others as they are. *)
EXTENDS Option, Result, Enum, AnyError, UniquePtr, StatusCode, File, TLC

VARIABLE subject

MCCodes == -1 .. 1

(* One path is opened in all ways that differ, and written to; another one *)
(* is there to be moved onto.                                              *)
Path == "path"
OtherPath == "other path"
Opening(type, modifier) == [type |-> type, modifier |-> modifier]
MCOpenedWith ==
    [x \in Streams |->
        IF x = Path
        THEN {Opening("ReadWrite", {"Append"}), Opening("ReadWrite", {}),
              Opening("Write", {"Truncate", "FailIfExists"}), Opening("Read", {}),
              Opening("Write", {"Append", "Truncate"})}
        ELSE {Opening("Write", {"Append", "Binary"})}]
MCMaxMarks == [x \in Streams |-> IF x = Path THEN 2 ELSE 0]

values == <<optionVars, resultVars, enumVars, errorVars>>
owners == <<uniqueVars, statusVars, fileVars>>

MCInit ==
    /\ subject \in {"Option", "Result", "Enum", "AnyError", "UniquePtr", "StatusCode", "File"}
    /\ OptionInit /\ (subject # "Option" => optionIsReference = FALSE)
    /\ ResultInit /\ (subject # "Result" => resultReferences = {})
    /\ EnumInit /\ (subject # "Enum" => enumConverts = {})
    /\ subject # "Enum" => \A i \in Alternatives : enumBuilds[i] = "construct"
    /\ ErrorInit
    /\ UniqueInit /\ (subject # "UniquePtr" => uniqueDeleter = "DefaultDeleter")
    /\ StatusInit
    /\ FileInit

MCNext ==
    /\ UNCHANGED subject
    /\ \/ /\ subject = "Option"
          /\ OptionNext
          /\ UNCHANGED <<resultVars, enumVars, errorVars, owners>>
       \/ /\ subject = "Result"
          /\ ResultNext
          /\ UNCHANGED <<optionVars, enumVars, errorVars, owners>>
       \/ /\ subject = "Enum"
          /\ EnumNext
          /\ UNCHANGED <<optionVars, resultVars, errorVars, owners>>
       \/ /\ subject = "AnyError"
          /\ ErrorNext
          /\ UNCHANGED <<optionVars, resultVars, enumVars, owners>>
       \/ /\ subject = "UniquePtr"
          /\ UniqueNext
          /\ UNCHANGED <<values, statusVars, fileVars>>
       \/ /\ subject = "StatusCode"
          /\ StatusNext
          /\ UNCHANGED <<values, uniqueVars, fileVars>>
       \/ /\ subject = "File"
          /\ FileNext
          /\ UNCHANGED <<values, uniqueVars, statusVars>>

MCSpec == MCInit /\ [][MCNext]_<<subject, values, owners>>

(* Nothing asks which variable or which value it is. *)
Symmetry == Permutations(Holders) \cup Permutations(Values)
=============================================================================
