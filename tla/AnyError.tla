------------------------------- MODULE AnyError -------------------------------
(***************************************************************************)
(* Error<Domain>, a wrapped ErrorCode, and AnyError, which owns an Error   *)
(* of any domain through a UniquePtr<ErrorBase>.  Each holder names one    *)
(* variable of either type; Values are the error codes, an AnyError that   *)
(* owns no Error is Nothing, and one that does not exist is Vacant.        *)
(***************************************************************************)
EXTENDS Lifetimes

(* The code -1 of a default constructed Error. *)
UnknownError == "unknown"
Errors == Values \cup {UnknownError}

(* An unknown error is an error, and owning nothing is not being nowhere. *)
ASSUME ErrorAssumption == UnknownError \notin {Nothing, Vacant} /\ Nothing # Vacant

VARIABLES
    error,          \* error[h]: m_error_code, Nothing before it is constructed
    anyError,       \* anyError[h]: what m_error points to, Nothing or Vacant
    errorCall,      \* history: the last call, its arguments and answer
    errorStopped    \* "no", or "null": a member of nullptr was called

errorVars == <<error, anyError, errorCall, errorStopped>>

AnyErrorLives(h) == anyError[h] # Vacant

(* Both kinds of variables, and the record of a call. *)
TheError(h) == <<"Error", h>>
TheAnyError(h) == <<"AnyError", h>>
ErrorCalls(name, x, argument, answer) == errorCall' = <<name, x, argument, answer>>

(* Error's constructors and assignments; the default one makes an unknown  *)
(* error.                                                                  *)
ErrorMake(h, e) ==
    /\ error' = [error EXCEPT ![h] = e]
    /\ ErrorCalls("put", TheError(h), e, Nothing)
    /\ UNCHANGED <<anyError, errorStopped>>

(* Error's copy and move operations: a code has nothing to move out.       *)
ErrorCopy(h, g) ==
    /\ error[g] # Nothing
    /\ error' = [error EXCEPT ![h] = error[g]]
    /\ ErrorCalls("copy", TheError(h), TheError(g), Nothing)
    /\ UNCHANGED <<anyError, errorStopped>>

(* Error::message, to_string, code, get. *)
ErrorMessage(h) ==
    /\ error[h] # Nothing
    /\ ErrorCalls("look", TheError(h), Errors, error[h])
    /\ UNCHANGED <<error, anyError, errorStopped>>

(* AnyError's default constructor leaves m_error as nullptr. *)
AnyErrorDefault(h) ==
    /\ ~AnyErrorLives(h)
    /\ anyError' = [anyError EXCEPT ![h] = Nothing]
    /\ ErrorCalls("put", TheAnyError(h), Nothing, Nothing)
    /\ UNCHANGED <<error, errorStopped>>

(* AnyError's constructors from an ErrorCode or an Error. *)
AnyErrorConstruct(h, g) ==
    /\ error[g] # Nothing
    /\ ~AnyErrorLives(h)
    /\ anyError' = [anyError EXCEPT ![h] = error[g]]
    /\ ErrorCalls("copy", TheAnyError(h), TheError(g), Nothing)
    /\ UNCHANGED <<error, errorStopped>>

(* The assignments from them: the Error owned before is deleted. *)
AnyErrorAssign(h, g) ==
    /\ error[g] # Nothing
    /\ AnyErrorLives(h)
    /\ anyError' = [anyError EXCEPT ![h] = error[g]]
    /\ ErrorCalls("copy", TheAnyError(h), TheError(g), Nothing)
    /\ UNCHANGED <<error, errorStopped>>

(* The copies call m_error->clone(), through nullptr if no Error is owned. *)
AnyErrorCopy(h, g) ==
    /\ AnyErrorLives(g)
    /\ CASE h = g -> UNCHANGED <<anyError, errorStopped>>
         [] h # g /\ anyError[g] = Nothing ->
                errorStopped' = "null" /\ UNCHANGED anyError
         [] OTHER ->
                /\ anyError' = [anyError EXCEPT ![h] = anyError[g]]
                /\ UNCHANGED errorStopped
    /\ ErrorCalls("copy", TheAnyError(h), TheAnyError(g), Nothing)
    /\ UNCHANGED error

(* Mutant of AnyErrorMove: the pointers are swapped. *)
AnyErrorMove_Swapped(h, g) ==
    /\ AnyErrorLives(g)
    /\ anyError' = [anyError EXCEPT ![h] = anyError[g], ![g] = anyError[h]]
    /\ ErrorCalls("move", TheAnyError(h), TheAnyError(g), Nothing)
    /\ UNCHANGED <<error, errorStopped>>

(* The defaulted moves move the pointer and leave nullptr. *)
AnyErrorMove(h, g) ==
    /\ AnyErrorLives(g)
    /\ anyError' = IF h = g THEN anyError
                   ELSE [anyError EXCEPT ![h] = anyError[g], ![g] = Nothing]
    /\ ErrorCalls("move", TheAnyError(h), TheAnyError(g), Nothing)
    /\ UNCHANGED <<error, errorStopped>>

(* message and to_string ask the Error owned, through nullptr if there is  *)
(* none.                                                                   *)
AnyErrorMessage(h) ==
    /\ AnyErrorLives(h)
    /\ ErrorCalls("demand", TheAnyError(h), Errors, anyError[h])
    /\ errorStopped' = IF anyError[h] = Nothing THEN "null" ELSE "no"
    /\ UNCHANGED <<error, anyError>>

(* The destructor deletes the Error owned. *)
AnyErrorDestroy(h) ==
    /\ AnyErrorLives(h)
    /\ anyError' = [anyError EXCEPT ![h] = Vacant]
    /\ ErrorCalls("destroy", TheAnyError(h), Nothing, Nothing)
    /\ UNCHANGED <<error, errorStopped>>

ErrorInit ==
    /\ error = [h \in Holders |-> Nothing]
    /\ anyError = [h \in Holders |-> Vacant]
    /\ errorCall = <<"none", Nothing, Nothing, Nothing>>
    /\ errorStopped = "no"

ErrorNext ==
    /\ errorStopped = "no"
    /\ \/ \E h \in Holders, e \in Errors : ErrorMake(h, e)
       \/ \E h \in Holders :
            \/ ErrorMessage(h)
            \/ AnyErrorDefault(h)
            \/ AnyErrorMessage(h)
            \/ AnyErrorDestroy(h)
       \/ \E h, g \in Holders :
            \/ ErrorCopy(h, g)
            \/ AnyErrorConstruct(h, g)
            \/ AnyErrorAssign(h, g)
            \/ AnyErrorCopy(h, g)
            \/ AnyErrorMove(h, g)

ErrorSpec == ErrorInit /\ [][ErrorNext]_errorVars

-----------------------------------------------------------------------------
(* "Constructs an `AnyError` as an unknown error" (Error.h:443): asked for *)
(* its message right after, it has one.  The default constructor (:445)    *)
(* leaves nullptr, and the message is asked of it (:508).                  *)
AnyErrorDefaultIsUnknown ==
    [][\A h \in Holders :
            errorCall = <<"put", TheAnyError(h), Nothing, Nothing>> /\ AnyErrorMessage(h)
                => errorStopped' = "no"]_errorVars

ErrorHolders == {"Error", "AnyError"} \X Holders
ErrorContents == Errors \cup {Nothing}

(* What a variable shows. *)
AnErrorIn(x) ==
    CASE x[1] = "Error" -> error[x[2]]
      [] x[1] = "AnyError" /\ AnyErrorLives(x[2]) -> anyError[x[2]]
      [] OTHER -> Nothing
ErrorHeld == [x \in ErrorHolders |-> AnErrorIn(x)]

ErrorSlot == INSTANCE Slot WITH
    Holders <- ErrorHolders,
    Contents <- ErrorContents,
    Sides <- {Errors},
    Uncopyable <- {Nothing},
    MustBeHandled <- FALSE,
    keeps <- [c \in ErrorContents |-> c],
    left <- [c \in ErrorContents |-> Nothing],
    held <- ErrorHeld,
    call <- errorCall,
    ended <- (errorStopped # "no")

(* An Error keeps its code while it changes hands between Errors and       *)
(* AnyErrors: whoever is copied or moved to shows the code of the one it   *)
(* was given, nobody else changes, a moved AnyError owns nothing, a        *)
(* message is that of the error last put into the one that is asked, and   *)
(* only an AnyError that owns nothing ends the program, when it is copied  *)
(* or asked (Error.h:493, :508, :532).                                     *)
AnyErrorImplementsSlot == ErrorSlot!Spec
=============================================================================
