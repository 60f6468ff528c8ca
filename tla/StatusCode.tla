------------------------------ MODULE StatusCode ------------------------------
(***************************************************************************)
(* StatusCode<Domain>, ErrorCode<Domain> and the domains that give a code  *)
(* its meaning.  Codes are small integers, -1 the unknown one; a domain is *)
(* its type and the id it was constructed with.  An NTSTATUS has           *)
(* NarrowBits bits and is looked up after a conversion to an unsigned type *)
(* of WideBits bits.                                                       *)
(***************************************************************************)
EXTENDS Lifetimes, Integers

CONSTANTS
    Codes,       \* the codes of the domains, 0 and -1 among them
    ForeignId,   \* an id that a domain was given by its creator
    NarrowBits,  \* width of long on Windows
    WideBits     \* width of u64

ASSUME StatusAssumption ==
    Codes \subseteq Int /\ {0, -1} \subseteq Codes /\ NarrowBits < WideBits

VARIABLES
    status,          \* status[h]: a StatusCode or an ErrorCode
    statusStopped,   \* "no", or why the program stopped
    statusUnchecked  \* history: who has a code that no ErrorCode ever checked

statusVars == <<status, statusStopped, statusUnchecked>>

Success == 0
Unknown == -1

GenericDomain == "GenericDomain"
PosixDomain == "PosixDomain"
Win32Domain == "Win32Domain"
NTDomain == "NTDomain"
UserDomain == "UserDomain"
Domains == {GenericDomain, PosixDomain, Win32Domain, NTDomain, UserDomain}

(* A domain constructed without an id has that of its type. *)
Ids(domain) == {domain, ForeignId}

Code(domain, id, code) ==
    [kind |-> "StatusCode", domain |-> domain, id |-> id, code |-> code]
Error(domain, id, code) == [Code(domain, id, code) EXCEPT !.kind = "ErrorCode"]
NoCode == [Code(GenericDomain, GenericDomain, Success) EXCEPT !.kind = "none"]

(* is_error and is_success, the same of every domain. *)
IsError(c) == c.code # Success
IsSuccess(c) == c.code = Success

(* The concept asks for members of a reference type, which has none: no    *)
(* status code satisfies it.                                               *)
ConvertibleToGenericStatusCode(domain) == FALSE

(* to_generic_code: a table of the codes POSIX requires. *)
PosixToGeneric(code) == IF code \in {Success, 1} THEN code ELSE Unknown

(* The same of Win32, where several codes share a meaning. *)
Win32ToGeneric(code) ==
    CASE code = Success -> Success
      [] code \in {1, 2} -> 1
      [] OTHER -> Unknown

(* static_cast<u64> of a negative NTSTATUS, and the values of the table's  *)
(* cases.                                                                  *)
SignExtended(code) == IF code < 0 THEN 2^WideBits + code ELSE code
NTCases == {2^NarrowBits + code : code \in {c \in Codes : c < 0}}

NTToGeneric(code) ==
    CASE code >= 0 -> Success
      [] code < 0 /\ SignExtended(code) \in NTCases -> 1
      [] OTHER -> Unknown
NTToWin32(code) ==
    CASE code >= 0 -> Success
      [] code < 0 /\ SignExtended(code) \in NTCases -> 1
      [] OTHER -> Unknown

(* Domain::as_generic_code; no code is convertible to itself by way of     *)
(* GenericDomain.                                                          *)
AsGenericCode(c) ==
    Code(GenericDomain, GenericDomain,
         CASE c.domain = PosixDomain -> PosixToGeneric(c.code)
           [] c.domain = Win32Domain -> Win32ToGeneric(c.code)
           [] c.domain = NTDomain -> NTToGeneric(c.code)
           [] OTHER -> Unknown)

(* operator== of the domains. *)
SameDomain(c, d) == c.id = d.id

SameKnownCode(c, d) == c.code = d.code /\ c.code # Unknown

(* GenericDomain::are_equivalent. *)
GenericEquivalent(c, d) ==
    /\ ConvertibleToGenericStatusCode(d.domain)
    /\ SameKnownCode(c, AsGenericCode(d))

(* Mutant of PosixEquivalent: whose code it is does not matter. *)
PosixEquivalent_AnyDomain(c, d) == SameKnownCode(c, d)

(* are_equivalent of PosixDomain, and of the other two like it. *)
PosixEquivalent(c, d) ==
    IF ConvertibleToGenericStatusCode(d.domain)
    THEN GenericEquivalent(AsGenericCode(c), AsGenericCode(d))
    ELSE SameDomain(c, d) /\ SameKnownCode(c, d)

Win32Equivalent(c, d) ==
    IF ConvertibleToGenericStatusCode(d.domain)
    THEN GenericEquivalent(AsGenericCode(c), AsGenericCode(d))
    ELSE SameDomain(c, d) /\ SameKnownCode(c, d)

(* The domains STATUS_CODE_DOMAIN defines. *)
UserEquivalent(c, d) ==
    IF ConvertibleToGenericStatusCode(d.domain)
    THEN GenericEquivalent(AsGenericCode(c), AsGenericCode(d))
    ELSE SameDomain(c, d) /\ SameKnownCode(c, d)

(* NTDomain::are_equivalent compares with a Win32 code as a Win32 code. *)
NTEquivalent(c, d) ==
    CASE ConvertibleToGenericStatusCode(d.domain) ->
            GenericEquivalent(AsGenericCode(c), AsGenericCode(d))
      [] ~ConvertibleToGenericStatusCode(d.domain) /\ d.domain = Win32Domain ->
            Win32Equivalent(Code(Win32Domain, Win32Domain, NTToWin32(c.code)), d)
      [] OTHER -> SameDomain(c, d) /\ SameKnownCode(c, d)

(* An Errno, the code of GenericDomain, does not compare with an integer:  *)
(* with a generic code on the right the other domains' are_equivalent is   *)
(* not a program.                                                          *)
Comparable(c, d) == d.domain = GenericDomain => c.domain = GenericDomain

(* StatusCode::is_equivalent, operator== and operator!=, of comparable     *)
(* codes.                                                                  *)
AreEquivalent(c, d) ==
    CASE c.domain = GenericDomain -> GenericEquivalent(c, d)
      [] c.domain = PosixDomain -> PosixEquivalent(c, d)
      [] c.domain = Win32Domain -> Win32Equivalent(c, d)
      [] c.domain = NTDomain -> NTEquivalent(c, d)
      [] c.domain = UserDomain -> UserEquivalent(c, d)

IsCode(h) == status[h].kind # "none"

(* The constructors of StatusCode. *)
StatusConstruct(h, domain, id, code) ==
    /\ ~IsCode(h)
    /\ status' = [status EXCEPT ![h] = Code(domain, id, code)]
    /\ UNCHANGED <<statusStopped, statusUnchecked>>

(* The constructors of ErrorCode and of Error panic on success. *)
ErrorConstruct(h, domain, id, code) ==
    /\ ~IsCode(h)
    /\ IF IsSuccess(Error(domain, id, code))
       THEN statusStopped' = "panic" /\ UNCHANGED status
       ELSE /\ status' = [status EXCEPT ![h] = Error(domain, id, code)]
            /\ UNCHANGED statusStopped
    /\ UNCHANGED statusUnchecked

(* assign, which an ErrorCode inherits and does not check. *)
StatusAssign(h, code) ==
    /\ IsCode(h)
    /\ status' = [status EXCEPT ![h].code = code]
    /\ statusUnchecked' = statusUnchecked \union {h}
    /\ UNCHANGED statusStopped

(* clear, which it inherits too. *)
StatusClear(h) ==
    /\ IsCode(h)
    /\ status' = [status EXCEPT ![h].code = Success]
    /\ statusUnchecked' = statusUnchecked \union {h}
    /\ UNCHANGED statusStopped

(* Mutant of ErrorAssign: the check is left to the caller. *)
ErrorAssign_Unchecked(h, code) ==
    /\ status[h].kind = "ErrorCode"
    /\ status' = [status EXCEPT ![h].code = code]
    /\ statusUnchecked' = statusUnchecked \ {h}
    /\ UNCHANGED statusStopped

(* ErrorCode::operator= from an enumerator: the check comes after the      *)
(* assignment.                                                             *)
ErrorAssign(h, code) ==
    /\ status[h].kind = "ErrorCode"
    /\ status' = [status EXCEPT ![h].code = code]
    /\ statusUnchecked' = statusUnchecked \ {h}
    /\ statusStopped' = IF code = Success THEN "panic" ELSE "no"

(* The copy and move constructors and assignments, domain included. *)
StatusCopy(h, g) ==
    /\ IsCode(g)
    /\ status[h].kind \in {"none", status[g].kind}
    /\ status' = [status EXCEPT ![h] = status[g]]
    /\ statusUnchecked' = IF g \in statusUnchecked
                          THEN statusUnchecked \union {h}
                          ELSE statusUnchecked \ {h}
    /\ UNCHANGED statusStopped

StatusInit ==
    /\ status = [h \in Holders |-> NoCode]
    /\ statusStopped = "no"
    /\ statusUnchecked = {}

StatusNext ==
    /\ statusStopped = "no"
    /\ \/ \E h \in Holders, domain \in Domains, code \in Codes :
            \E id \in Ids(domain) :
                \/ StatusConstruct(h, domain, id, code)
                \/ ErrorConstruct(h, domain, id, code)
       \/ \E h \in Holders, code \in Codes :
            StatusAssign(h, code) \/ ErrorAssign(h, code)
       \/ \E h \in Holders : StatusClear(h)
       \/ \E h, g \in Holders : StatusCopy(h, g)

StatusSpec == StatusInit /\ [][StatusNext]_statusVars

-----------------------------------------------------------------------------
(* An ErrorCode that says success got that code, itself or by copies, from *)
(* the assign() and clear() that it inherits (StatusCode.h:269, :312): the *)
(* constructors, the assignment from an enumerator and the copies of what  *)
(* they let through keep "may only represent an error" (StatusCode.h:570). *)
ErrorSuccessConfined ==
    statusStopped = "no" =>
        \A h \in Holders : status[h].kind = "ErrorCode" /\ IsSuccess(status[h])
                                => h \in statusUnchecked

(* Whether two codes are equal depends on the order of the operands only   *)
(* between an NTSTATUS and a Win32 code: NTDomain converts the one on its  *)
(* left before it compares (NTDomain.h:194), Win32Domain never does        *)
(* (Win32Domain.h:234).                                                    *)
StatusEqualitySymmetric ==
    \A h, g \in {i \in Holders : IsCode(i)} :
        (/\ Comparable(status[h], status[g])
         /\ Comparable(status[g], status[h])
         /\ AreEquivalent(status[h], status[g])
         /\ ~AreEquivalent(status[g], status[h]))
        => {status[h].domain, status[g].domain} = {NTDomain, Win32Domain}

=============================================================================
