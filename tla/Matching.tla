------------------------------ MODULE Matching ------------------------------
(***************************************************************************)
(* The two readers of the skill bank: gap.detect_gaps, which reports a     *)
(* tier for every skill a posting asks for, and tailor.tailor_with_gaps,   *)
(* which puts skills on a CV made for that posting.  Each builds its own   *)
(* alias table and index.                                                  *)
(*                                                                         *)
(* A spelling is in its normal form (normalize_skill without an alias      *)
(* table).  A text is a set of phrases: what follows a qualifier, with the *)
(* level it asks for, and at level 0 the text as a whole.  A phrase is     *)
(* given by the spellings that occur in it; what they lead to depends on   *)
(* the index it is scanned with, and each pass scans with its own.  Left   *)
(* out is the phrase that is nothing but an alias of several words (or of  *)
(* a name that holds another): only there is such an alias resolved.  A    *)
(* typo is a word that no index has, given by the atom it resembles.       *)
(***************************************************************************)
EXTENDS Naturals, Sequences, FiniteSets, FiniteSetsExt

VARIABLES
    bank,       \* the skill bank: atoms [name, aliases, level, stale]
    deferred,   \* its parking lot, atoms too
    vocabulary, \* the vocabulary of postings: terms [name, aliases]
    live,       \* words of the items on the live CV
    parts,      \* parts[s]: the words of spelling s if it has several, else {}
    posting,    \* what detect_gaps scans: the text, normalised; phrases [level, said]
    pasted,     \* what tailor_with_gaps scans: the text as it came in, phrases too
    typos       \* names of the bank atoms that unknown words resemble

matchingVars == <<bank, deferred, vocabulary, live, parts, posting, pasted, typos>>

Names(atoms) == {atoms[i].name : i \in DOMAIN atoms}
At(atoms, P(_)) == {i \in DOMAIN atoms : P(atoms[i])}

\* build_alias_table, then .get(w, w): a name stands for itself, an alias for
\* the first atom that has it.
Canonical(atoms, w) ==
    LET named == At(atoms, LAMBDA a : w \in a.aliases)
    IN  IF w \in Names(atoms) \/ named = {} THEN w ELSE atoms[Min(named)].name

\* build_skill_index: an item's raw form, and what it is an alias of.
LiveIndex(atoms) == live \cup {Canonical(atoms, w) : w \in live}

-----------------------------------------------------------------------------
(***************************************************************************)
(* extract_mentions, over the index of a list of atoms.  Its keys are the  *)
(* names: an alias resolves to one.                                        *)
(***************************************************************************)
\* The keys that single words lead to, by name or by alias.
Resolved(atoms, said) == {Canonical(atoms, w) : w \in {w \in said : parts[w] = {}}} \cap Names(atoms)

LongKeys(atoms, said) == {k \in Names(atoms) \cap said : parts[k] # {}}

\* _skills_in_chunk: keys of several words first, and their words are spent.
InPhrase(atoms, said) ==
    LET long == LongKeys(atoms, said)
    IN  long \cup Resolved(atoms, said \ UNION {parts[k] : k \in long})

\* The keys under a qualifier, then the rest of the text without a level.
Mentions(atoms, text) ==
    LET qualified == UNION {{[key |-> k, level |-> p.level] : k \in InPhrase(atoms, p.said)} :
                                p \in {p \in text : p.level > 0}}
        said == UNION {p.said : p \in text}
        plain == LongKeys(atoms, said) \cup Resolved(atoms, said)
    IN  qualified \cup {[key |-> k, level |-> 0] : k \in plain \ {m.key : m \in qualified}}

\* Mutant: the first mention counts, however weak.
WeakestLevel(mentions) == Min({m.level : m \in mentions})

\* The strongest mention wins.
StrongestLevel(mentions) == Max({m.level : m \in mentions})

-----------------------------------------------------------------------------
(***************************************************************************)
(* detect_gaps                                                             *)
(***************************************************************************)
\* load_analysis_inputs: one table over the three lists.
Known == bank \o deferred \o vocabulary

AtomKeys(a) == {Canonical(Known, w) : w \in a.aliases \cup {a.name}}

BankTier(a) ==
    IF a.name \notin LiveIndex(Known) THEN "unvouched"
    ELSE IF a.stale THEN "stale" ELSE "covered"

\* Mutant: the parking lot is merged after the bank.
TierDeferredFirst(k) ==
    LET inBank == At(bank, LAMBDA a : k \in AtomKeys(a))
        parked == At(deferred, LAMBDA a : k \in AtomKeys(a))
        listed == At(vocabulary, LAMBDA t : t.name = k)
    IN  IF parked # {} THEN {[term |-> deferred[Max(parked)].name, tier |-> "deferred"]}
        ELSE IF inBank # {} THEN {[term |-> bank[Max(inBank)].name,
                                   tier |-> BankTier(bank[Max(inBank)])]}
        ELSE IF listed # {} THEN {[term |-> k, tier |-> "unknown"]} ELSE {}

\* _tier_index: vocabulary < deferred < bank, and in a list the last atom that
\* has the key, as a name or as an alias.
Tier(k) ==
    LET inBank == At(bank, LAMBDA a : k \in AtomKeys(a))
        parked == At(deferred, LAMBDA a : k \in AtomKeys(a))
        listed == At(vocabulary, LAMBDA t : t.name = k)
    IN  IF inBank # {} THEN {[term |-> bank[Max(inBank)].name,
                              tier |-> BankTier(bank[Max(inBank)])]}
        ELSE IF parked # {} THEN {[term |-> deferred[Max(parked)].name, tier |-> "deferred"]}
        ELSE IF listed # {} THEN {[term |-> k, tier |-> "unknown"]} ELSE {}

Asked == Mentions(Known, posting)

\* One gap per term, with the firmest level asked under any of its keys.  (Of a
\* term with two tiers, because two lists have it under different aliases, the
\* code keeps the firmest mention; the inputs leave such lists out.)
Report ==
    {[term |-> e.term, tier |-> e.tier,
      level |-> StrongestLevel({m \in Asked : e \in Tier(m.key)})] :
        e \in UNION {Tier(m.key) : m \in Asked}}

-----------------------------------------------------------------------------
(***************************************************************************)
(* tailor_with_gaps                                                        *)
(***************************************************************************)
\* build_atom_index over the bank alone: a name first, then the first alias.
IndexedAt(k) ==
    LET own == At(bank, LAMBDA a : a.name = k)
        aliased == At(bank, LAMBDA a : \E w \in a.aliases : Canonical(bank, w) = k)
    IN  IF own # {} THEN own ELSE IF aliased # {} THEN {Min(aliased)} ELSE {}

\* The mentions that lead to atom i.
MentionsOf(i) == {m \in Mentions(bank, pasted) : i \in IndexedAt(m.key)}

\* Mutant: an atom must be better than what is asked.
QualifiesAbove(i) == bank[i].level > StrongestLevel(MentionsOf(i))

\* _qualifies, with the strongest level asked.
Qualifies(i) == bank[i].level >= StrongestLevel(MentionsOf(i))

\* Mutant: a typo is allowed to bring an atom that is not on the CV.
TrustedExceptTypos(i) == bank[i].name \in LiveIndex(bank) \cup typos

\* _trust_filter
Trusted(i) == bank[i].name \in LiveIndex(bank)

\* A typo imposes no level.
Tailored ==
    {bank[i].name : i \in {i \in DOMAIN bank :
        /\ (MentionsOf(i) # {} /\ Qualifies(i)) \/ bank[i].name \in typos
        /\ Trusted(i)}}

-----------------------------------------------------------------------------
(***************************************************************************)
(* Properties                                                              *)
(***************************************************************************)
\* No word is the name or an alias of two atoms or terms.
Unambiguous ==
    \A w \in UNION {a.aliases \cup {a.name} : a \in {Known[i] : i \in DOMAIN Known}} :
        Cardinality(At(Known, LAMBDA a : w \in a.aliases \cup {a.name})) = 1

\* The report has the skill as one the CV may show at the level asked.
Presentable(i) ==
    \E g \in Report : /\ g.term = bank[i].name
                      /\ g.tier \in {"covered", "stale"}
                      /\ g.level <= bank[i].level

\* A longer name holds a spelling of atom i: the index that has that name hears
\* less of the atom than one that has not.
Swallowed(i) ==
    \E k \in Names(Known) : parts[k] \cap (bank[i].aliases \cup {bank[i].name}) # {}

\* Two scans of one text, with two tables and two indexes: what a tailored CV
\* shows, typos aside, the report calls covered (or stale) at a level the
\* operator masters, and no key of the wider index breaks that; the converse
\* holds but for skills a longer name swallows a word of.
ReportAgreesWithTailoring ==
    Unambiguous /\ pasted = posting =>
        \A i \in DOMAIN bank : bank[i].name \notin typos =>
            /\ bank[i].name \in Tailored => Presentable(i)
            /\ Presentable(i) /\ ~Swallowed(i) => bank[i].name \in Tailored

\* The trust policy, against the report's own index: a tailored CV never shows
\* a skill that the report calls unvouched.
UnvouchedIsNotShown ==
    Unambiguous => \A g \in Report : g.tier = "unvouched" => g.term \notin Tailored

\* Every word or name asked for that anybody knows is in the report, under a
\* term that claims it, and at no weaker level unless a longer name of the same
\* phrase has spent it.
AskedIsReported ==
    \A p \in posting : \A w \in p.said :
        LET k == Canonical(Known, w)
        IN  k \in Names(Known) /\ (parts[w] = {} \/ k = w) =>
                \E g \in Report :
                    /\ [term |-> g.term, tier |-> g.tier] \in Tier(k)
                    /\ g.level >= p.level
                       \/ \E long \in Names(Known) \cap p.said : w \in parts[long]

\* Cheapest to close first: a skill of the bank is never reported as parked or
\* unknown because another list has it too.
BankOutranks ==
    \A g \in Report : g.term \in Names(bank) => g.tier \notin {"deferred", "unknown"}
=============================================================================
