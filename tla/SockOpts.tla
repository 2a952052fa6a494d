------------------------------ MODULE SockOpts ------------------------------
(***************************************************************************)
(* The options of a socket, on their way from an Erlang list to the driver *)
(* and back: validate (src/gen_utp_opts.erl), options_to_binary            *)
(* (src/gen_utp.erl), decode, decode_and_merge, setopts and getopts        *)
(* (c_src/socket_handler.cc).                                              *)
(*                                                                         *)
(* An option is a pair <<name, value>>; the atoms binary and list are      *)
(* values of "mode", inet and inet6 of "family".  #utp_options{} is a      *)
(* function on the names that are not undefined, and so is the binary made *)
(* from it: each name comes once in it, in an order that does not matter.  *)
(* Addresses are abstracted to the family they belong to.                  *)
(***************************************************************************)
EXTENDS Integers, Sequences, FiniteSetsExt

CONSTANTS
    Options,    \* the options users give
    MaxList,    \* bound on the length of a list of options or of names
    Half,       \* half the range of the fields that have 32 bits: 2^31 in the code
    DefaultBuf, \* UTP_SNDBUF_DEFAULT, UTP_RECBUF_DEFAULT
    AskNames,   \* the names getopts is asked for
    SMP         \* TRUE: port thread and main thread run concurrently

Infinity == -1    \* the atom infinity, and the driver's -1
Raw == -1         \* the atom raw
Max16 == 65535    \* the largest number of 16 bits

\* The binary's numbers of 32 bits, and the driver's int and unsigned long
Truncated(n) == n % (2 * Half)
Signed(n) == IF n >= Half THEN n - 2 * Half ELSE n
Unsigned(n) == n % (4 * Half * Half)

VARIABLES
    opts,   \* the handler's sockopts
    pt,     \* the setopts call in progress on the port thread
    want,   \* history: what the user has asked for
    opened  \* listen or connect has succeeded

vars == <<opts, pt, want, opened>>

\* SockOpts::SockOpts
Default ==
    [mode |-> "list", ip |-> "none", port |-> 0, family |-> "inet",
     send_timeout |-> Infinity, active |-> "true", packet |-> 0, header |-> 0,
     sndbuf |-> DefaultBuf, recbuf |-> DefaultBuf]
Names == DOMAIN Default

ASSUME OptionsAssumption == \A o \in Options : o = <<o[1], o[2]>> /\ o[1] \in Names
ASSUME BoundsAssumption ==
    /\ MaxList \in Nat /\ Half \in Nat \ {0} /\ DefaultBuf \in 1..(Half - 1)
    /\ AskNames \subseteq Names

NoCall == [busy |-> FALSE, copy |-> Default, list |-> <<>>]

Init ==
    /\ opts = Default /\ want = Default
    /\ pt = NoCall /\ opened = FALSE

-----------------------------------------------------------------------------
(***************************************************************************)
(* gen_utp_opts:validate                                                   *)
(***************************************************************************)

FamilyOf(ip) == IF ip = "v4" THEN "inet" ELSE "inet6"

\* The values an option may have
Legal(name) ==
    CASE name = "mode" -> {"list", "binary"}
      [] name = "ip" -> {"v4", "v6"}
      [] name = "port" -> 0..Max16
      [] name = "family" -> {"inet", "inet6"}
      [] name = "send_timeout" -> {Infinity} \cup (Nat \ {0})
      [] name = "active" -> {"false", "once", "true"}
      [] name = "packet" -> {Raw, 0, 1, 2, 4}
      [] name = "header" -> 1..Max16
      [] name \in {"sndbuf", "recbuf"} -> Nat \ {0}

\* Mutant: any family goes with any address.
AcceptsAnyFamily(f, o) == o[2] \in Legal(o[1])

\* One clause of validate/2: option o after the options f.  A family must
\* agree with an address that comes before it; an address sets the family.
Accepts(f, o) ==
    /\ o[2] \in Legal(o[1])
    /\ o[1] = "family" /\ "ip" \in DOMAIN f => f["family"] = o[2]

\* What f says, and for the other names what g says
Over(f, g) == [n \in DOMAIN f \cup DOMAIN g |-> IF n \in DOMAIN f THEN f[n] ELSE g[n]]
Empty == [n \in {} |-> 0]

\* The options f with option o
Taken(f, o) ==
    CASE o[1] = "ip" -> Over([ip |-> o[2], family |-> FamilyOf(o[2])], f)
      [] o = <<"packet", Raw>> -> Over([packet |-> 0], f)
      [] OTHER -> Over([n \in {o[1]} |-> o[2]], f)


\* validate(list): "badarg", or the options; header needs binary mode.
Folded(list) ==
    LET fold[i \in 0..Len(list)] ==
            IF i = 0 THEN [ok |-> TRUE, set |-> Empty]
            ELSE IF fold[i-1].ok /\ Accepts(fold[i-1].set, list[i])
            THEN [ok |-> TRUE, set |-> Taken(fold[i-1].set, list[i])]
            ELSE [ok |-> FALSE, set |-> Empty]
    IN  fold[Len(list)]
HeaderOk(f) == "header" \in DOMAIN f => "mode" \in DOMAIN f /\ f["mode"] = "binary"
Valid(list) == Folded(list).ok /\ HeaderOk(Folded(list).set)
validate(list) == Folded(list).set

-----------------------------------------------------------------------------
(***************************************************************************)
(* The binary, and the driver                                              *)
(***************************************************************************)

\* options_to_binary: the family inet is not sent, it is the default.
options_to_binary(f) ==
    [n \in {m \in DOMAIN f : m = "family" => f[m] = "inet6"} |->
        IF n \in {"send_timeout", "sndbuf", "recbuf"} /\ f[n] # Infinity
        THEN Truncated(f[n]) ELSE f[n]]

\* What decode stores for each option in the binary
Decoded(bin) ==
    [n \in DOMAIN bin |-> IF n \in {"sndbuf", "recbuf"} THEN Signed(bin[n]) ELSE bin[n]]

decode(bin) == Over(Decoded(bin), Default)

\* decode_and_merge throws for what cannot be changed any more.
Mergeable(bin) == DOMAIN bin \cap {"ip", "port", "family"} = {}

\* Mutant: options that are not mentioned go back to their defaults.
decode_and_mergeAll(o, bin) == decode(bin)

decode_and_merge(o, bin) == Over(Decoded(bin), o)

\* validate_names: the names getopts/2 takes
NameOk(n) ==
    n \in {"active", "mode", "send_timeout", "packet", "header", "sndbuf", "recbuf"}

\* The names the driver has a case for
Known(n) == n # "header" /\ NameOk(n)

\* Mutant: the two buffer sizes are swapped.
EncodedSwapped(o, n) ==
    CASE n = "sndbuf" -> Unsigned(o["recbuf"])
      [] n = "recbuf" -> Unsigned(o["sndbuf"])
      [] OTHER -> o[n]

\* What the driver writes for name n
Encoded(o, n) == IF n \in {"sndbuf", "recbuf"} THEN Unsigned(o[n]) ELSE o[n]

\* getopts/2 with a list of names: one that either side does not know makes the
\* whole reply an error, else it has a pair for each, in the order asked for.
getopts(o, names) ==
    IF \A i \in DOMAIN names : Known(names[i])
    THEN <<"ok", [i \in DOMAIN names |-> <<names[i], Encoded(o, names[i])>>]>>
    ELSE <<"error", "einval">>

-----------------------------------------------------------------------------
(***************************************************************************)
(* What the user asks for: the reference the driver's options are compared *)
(* with.  Of the values given for a name the last one counts, and the      *)
(* family is that of the last address or family named.                     *)
(***************************************************************************)

\* Option o says something about name n; the places in a list that do; and
\* what they say
Says(o, n) == o[1] = n \/ (n = "family" /\ o[1] = "ip")
Giving(list, n) == {i \in 1..Len(list) : Says(list[i], n)}
Given(o, n) ==
    CASE o[1] # n -> FamilyOf(o[2])
      [] o[1] = n /\ o = <<"packet", Raw>> -> 0
      [] OTHER -> o[2]

Asked(list, base) ==
    [n \in Names |-> IF Giving(list, n) = {} THEN base[n]
                     ELSE Given(list[Max(Giving(list, n))], n)]

-----------------------------------------------------------------------------

Lists == UNION {[1..k -> Options] : k \in 0..MaxList}

\* listen/2 or connect/3 with a list of options
Open(list) ==
    /\ ~opened /\ Valid(list)
    /\ opts' = decode(options_to_binary(validate(list)))
    /\ want' = Asked(list, Default)
    /\ opened' = TRUE
    /\ UNCHANGED pt

\* setopts/2 refuses an address, a port or a family; SocketHandler::setopts
\* then copies the handler's options and merges the new ones into the copy ...
Setopts(list) ==
    /\ opened /\ ~pt.busy /\ Valid(list)
    /\ DOMAIN validate(list) \cap {"ip", "port", "family"} = {}
    /\ LET bin == options_to_binary(validate(list))
       IN  /\ Mergeable(bin)
           /\ pt' = [busy |-> TRUE, copy |-> decode_and_merge(opts, bin), list |-> list]
    /\ UNCHANGED <<opts, want, opened>>

\* ... and stores the copy back.  utp_mutex is not held.
SetoptsAssign ==
    /\ pt.busy
    /\ opts' = pt.copy
    /\ want' = Asked(pt.list, want)
    /\ pt' = NoCall
    /\ UNCHANGED opened

\* The main thread delivers data to the owner of an active socket:
\* emit_read_buffer, under utp_mutex, takes {active, once} back.
Passive(o) == IF o.active = "once" THEN [o EXCEPT !.active = "false"] ELSE o
Deliver ==
    /\ SMP \/ ~pt.busy
    /\ opened /\ opts.active # "false"
    /\ opts' = Passive(opts)
    /\ want' = Passive(want)
    /\ UNCHANGED <<pt, opened>>

Next ==
    \/ \E list \in Lists : Open(list) \/ Setopts(list)
    \/ SetoptsAssign
    \/ Deliver

Spec == Init /\ [][Next]_vars

-----------------------------------------------------------------------------
(***************************************************************************)
(* Properties                                                              *)
(***************************************************************************)

\* Each option of the handler has a value the driver can work with: a packet
\* size outputv and emit_read_buffer know, a header that fits in 16 bits,
\* buffer sizes that are positive.
TypeOK ==
    /\ opts.mode \in {"list", "binary"} /\ opts.family \in {"inet", "inet6"}
    /\ opts.active \in {"false", "once", "true"}
    /\ opts.packet \in {0, 1, 2, 4} /\ opts.header \in 0..Max16
    /\ opts.send_timeout = Infinity \/ opts.send_timeout > 0
    /\ opts.sndbuf > 0 /\ opts.recbuf > 0

\* Between two setopts calls the handler has exactly the options asked for,
\* the ones not mentioned as they were, and {active, once} used up by the
\* first delivery after it.
OptsAsAsked == ~pt.busy => opts = want

\* Lists of names that getopts/2 takes
NameLists ==
    {names \in UNION {[1..k -> AskNames] : k \in 0..MaxList} :
        \A i \in DOMAIN names : NameOk(names[i])}

\* getopts/2 answers, with what was set for each name, in the order asked for.
GetReturnsSet ==
    opened /\ ~pt.busy => \A names \in NameLists :
        getopts(opts, names) = <<"ok", [i \in DOMAIN names |-> <<names[i], want[names[i]]>>]>>

\* An address and the family used to open the socket agree.
FamilyMatchesAddress == opts.ip # "none" => opts.family = FamilyOf(opts.ip)

\* What the driver stores: legal values, in agreement with each other.
StoredOptsInv == TypeOK /\ FamilyMatchesAddress

\* {header, Size} is in force in binary mode only.
HeaderOnlyInBinary == opts.header # 0 => opts.mode = "binary"
=============================================================================
