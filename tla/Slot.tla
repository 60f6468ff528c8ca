-------------------------------- MODULE Slot --------------------------------
(***************************************************************************)
(* What a holder of at most one value promises its callers.  A holder      *)
(* shows a value, nothing, or the husk of a value it was asked to give up. *)
(* Every call names the holders it works on and the value or the kind of   *)
(* contents it asks for; the call decides what each holder shows           *)
(* afterwards, what is answered, and whether the program may go on.        *)
(* Option, Result, Enum and AnyError are shown to implement this           *)
(* specification, call by call; what they do with tags, unions, pointers   *)
(* and object lifetimes is invisible here.                                 *)
(***************************************************************************)
CONSTANTS
    Holders,        \* the variables of a program that have the type
    Contents,       \* everything a holder can show, Nothing and husks included
    Sides,          \* the kinds of contents a caller can ask for
    Nothing,        \* what an empty holder shows
    Uncopyable,     \* contents whose transfer may end the program
    MustBeHandled   \* whether a holder may refuse to be destroyed in use

VARIABLES
    keeps,      \* keeps[c]: what a holder makes of contents c given to it
    left,       \* left[c]: what stays of contents c that are moved out
    held,       \* held[h]: what holder h shows
    call,       \* the last call: its name, its two arguments, its answer
    ended       \* a call has ended the program

slot == <<keeps, left, held, call, ended>>

Init ==
    /\ keeps \in [Contents -> Contents]
    /\ left \in [Contents -> Contents]
    /\ held = [h \in Holders |-> Nothing]
    /\ call = <<"none", Nothing, Nothing, Nothing>>
    /\ ended = FALSE

(* A holder is given contents, or emptied. *)
Put(h, c) ==
    /\ call' = <<"put", h, c, Nothing>>
    /\ held' = [held EXCEPT ![h] = c]
    /\ UNCHANGED ended

(* A holder is given contents and makes of them what it can. *)
Convert(h, c) ==
    /\ call' = <<"convert", h, c, Nothing>>
    /\ held' = [held EXCEPT ![h] = keeps[c]]
    /\ UNCHANGED ended

(* What a holder is given cannot be taken in (it throws): the holder is    *)
(* left empty, or the program ends.                                        *)
Fail(h) ==
    /\ call' = <<"fail", h, Nothing, Nothing>>
    /\ \/ held' = [held EXCEPT ![h] = Nothing] /\ UNCHANGED ended
       \/ UNCHANGED held /\ ended' = TRUE

(* The end of a holder. *)
Destroy(h) ==
    /\ call' = <<"destroy", h, Nothing, Nothing>>
    /\ \/ held' = [held EXCEPT ![h] = Nothing] /\ UNCHANGED ended
       \/ MustBeHandled /\ held[h] # Nothing /\ UNCHANGED held /\ ended' = TRUE

(* One holder becomes a copy of another, which stays as it is. *)
Copy(h, g) ==
    /\ call' = <<"copy", h, g, Nothing>>
    /\ \/ /\ held' = IF h = g THEN held ELSE [held EXCEPT ![h] = keeps[held[g]]]
          /\ UNCHANGED ended
       \/ h # g /\ held[g] \in Uncopyable /\ UNCHANGED held /\ ended' = TRUE

(* The contents of one holder move to another and leave the first empty. *)
Move(h, g) ==
    /\ call' = <<"move", h, g, Nothing>>
    /\ held' = IF h = g THEN held ELSE [held EXCEPT ![h] = held[g], ![g] = Nothing]
    /\ UNCHANGED ended

(* The contents of one holder move to another and leave a husk. *)
Drain(h, g) ==
    /\ call' = <<"drain", h, g, Nothing>>
    /\ \/ /\ held' = IF h = g THEN held
                     ELSE [held EXCEPT ![h] = keeps[held[g]], ![g] = left[held[g]]]
          /\ UNCHANGED ended
       \/ /\ h # g
          /\ held[g] \in Uncopyable \/ keeps[held[g]] # held[g]
          /\ UNCHANGED held
          /\ ended' = TRUE

(* The answer to a caller who asks a holder for one kind of contents. *)
Answers(name, h, side) ==
    call' = <<name, h, side, IF held[h] \in side THEN held[h] ELSE Nothing>>

(* What was asked for is moved out. *)
Yields(h, side) ==
    held' = IF held[h] \in side THEN [held EXCEPT ![h] = left[held[h]]] ELSE held

(* The caller sees one kind of contents, or that it is not there. *)
Look(h, side) ==
    /\ Answers("look", h, side)
    /\ UNCHANGED <<held, ended>>

(* The same, and the program ends if it is not there. *)
Demand(h, side) ==
    /\ Answers("demand", h, side)
    /\ UNCHANGED held
    /\ ended' = (held[h] \notin side)

(* The caller is given one kind of contents, or told that it is not there. *)
Take(h, side) ==
    /\ Answers("take", h, side)
    /\ Yields(h, side)
    /\ UNCHANGED ended

(* The same, and the program ends if it is not there. *)
Unwrap(h, side) ==
    /\ Answers("unwrap", h, side)
    /\ Yields(h, side)
    /\ ended' = (held[h] \notin side)

(* The first of two holders that is not empty. *)
Either(h, g) == IF held[h] # Nothing THEN h ELSE g

LookEither(h, g) ==
    /\ call' = <<"look either", h, g, held[Either(h, g)]>>
    /\ UNCHANGED <<held, ended>>

TakeEither(h, g) ==
    /\ call' = <<"take either", h, g, held[Either(h, g)]>>
    /\ held' = [held EXCEPT ![Either(h, g)] = Nothing]
    /\ UNCHANGED ended

(* A call is a call of the holder it names. *)
Next ==
    /\ ~ended
    /\ UNCHANGED <<keeps, left>>
    /\ \E h \in Holders :
        /\ call'[2] = h
        /\ \/ Fail(h) \/ Destroy(h)
           \/ \E g \in Holders :
                \/ Copy(h, g) \/ Move(h, g) \/ Drain(h, g)
                \/ LookEither(h, g) \/ TakeEither(h, g)
           \/ \E c \in Contents : Put(h, c) \/ Convert(h, c)
           \/ \E side \in Sides :
                Look(h, side) \/ Demand(h, side) \/ Take(h, side) \/ Unwrap(h, side)

Spec == Init /\ [][Next]_slot
=============================================================================
