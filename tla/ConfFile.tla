------------------------------- MODULE ConfFile -------------------------------
(***************************************************************************)
(* The text of a configuration file, line by line: what each line is to    *)
(* load_config of common/src/config.c, what netto_config_parser does with  *)
(* it, and what a file says, stated without parsing it.                    *)
(*                                                                         *)
(* Spaces, the digits of a number and the spelling of names are left out:  *)
(* a line is what trim, strchr and atoi make of it.                        *)
(***************************************************************************)
EXTENDS Integers, Sequences

CONSTANTS
    Keys,          \* the fields of config_t, by the keys that set them
    OtherKeys,     \* keys netto_config_parser does not know
    Values,        \* what atoi makes of a value
    Log,           \* the section of the known keys
    OtherSections, \* sections netto_config_parser does not know
    NoSection      \* the empty name: no header yet, or "[]"

ASSUME ConfFileAssumption ==
    /\ Keys \cap OtherKeys = {}
    /\ Log \notin OtherSections \cup {NoSection}
    /\ NoSection \notin OtherSections

Sections == {Log, NoSection} \cup OtherSections
Contents == [Keys -> Values]   \* of a config_t

(* A header in brackets; a pair with something on both sides of its "=";   *)
(* and anything else: a comment, a blank line, a bracket that is not       *)
(* closed, a pair that lacks its "=", its key or its value.                *)
Header(s) == [kind |-> "header", section |-> s]
Pair(k, v) == [kind |-> "pair", key |-> k, value |-> v]
Ignored == [kind |-> "ignored"]

Lines == {Header(s) : s \in Sections}
    \cup {Pair(k, v) : k \in Keys \cup OtherKeys, v \in Values}
    \cup {Ignored}

(* curr_section after a line. *)
NextSection(s, l) == IF l.kind = "header" THEN l.section ELSE s

(* A pair outside of any section is not shown to the parser. *)
Parsed(s, l) == l.kind = "pair" /\ s # NoSection

\* Mutant: the section of a key is not looked at.
ParserAnySection(c, s, l) ==
    IF l.key \in Keys THEN [c EXCEPT ![l.key] = l.value] ELSE c

(* netto_config_parser: other sections and other keys are passed over. *)
Parser(c, s, l) ==
    IF s = Log /\ l.key \in Keys THEN [c EXCEPT ![l.key] = l.value] ELSE c

-----------------------------------------------------------------------------
(* What the first n lines of a file say of a key.  These definitions are   *)
(* the reference the parser is checked against.                            *)

IsHeader(l) == \E s \in Sections : l = Header(s)

(* Line i stands under the header of section s. *)
Under(f, i, s) ==
    \E h \in 1 .. i : f[h] = Header(s) /\ \A j \in (h + 1) .. i : ~IsHeader(f[j])

(* The section the first n lines end in, if any. *)
SectionIs(f, n, s) == \A t \in Sections \ {NoSection} : Under(f, n, t) <=> s = t

Sets(f, i, k, v) == f[i] = Pair(k, v) /\ Under(f, i, Log)

(* The last line under "log" that sets the key counts. *)
Says(f, n, k, v) ==
    \E i \in 1 .. n :
        /\ Sets(f, i, k, v)
        /\ \A j \in (i + 1) .. n, u \in Values : ~Sets(f, j, k, u)

(* Configuration c is b with what the first n lines say. *)
Follows(f, n, b, c) ==
    \A k \in Keys :
        /\ \A v \in Values : Says(f, n, k, v) => c[k] = v
        /\ (\A v \in Values : ~Says(f, n, k, v)) => c[k] = b[k]

=============================================================================
