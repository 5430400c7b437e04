------------------------------ MODULE Settings ------------------------------
(***************************************************************************)
(* The bot's global settings (naruto/settings/service.py, registry.py,     *)
(* seed.py): rows of the database over the defaults of the code, the       *)
(* values in memory, the latest entry of each setting's history, the       *)
(* owner's Settings page, the seeding of an empty database, and restarts   *)
(* that may bring new code with other defaults and stricter rules.         *)
(*                                                                         *)
(* A setting's value is one of a few; validation is the set of values a    *)
(* version of the code accepts.                                            *)
(***************************************************************************)
EXTENDS Integers, FiniteSets

CONSTANTS Keys,        \* the settings
          Values,
          MaxVersion,  \* bound: how often the code is updated
          Default,     \* Default[v][k]: the default of a version of the code
          Accepts,     \* Accepts[v][k]: the values its validation takes
          Seed,        \* the old configuration's values, a function on some keys
          MaxOthers    \* bound: the owner's changes

ASSUME SettingsAssumption ==
    /\ Keys # {} /\ IsFiniteSet(Keys) /\ Values \subseteq Nat
    /\ MaxVersion \in Nat /\ MaxOthers \in Nat
    /\ Accepts \in [0 .. MaxVersion -> [Keys -> SUBSET Values]]
    /\ Default \in [0 .. MaxVersion -> [Keys -> Values]]
    /\ \A v \in 0 .. MaxVersion, k \in Keys : Default[v][k] \in Accepts[v][k]
    /\ DOMAIN Seed \subseteq Keys

NoRow == -1   \* the setting has its default
NoEntry == [old |-> -2, new |-> -2]

VARIABLES
    version,  \* of the code that runs
    stored,   \* the table settings
    live,     \* SettingsService._values
    last,     \* the latest entry of each setting's history
    seeded,   \* meta: the database was seeded
    toSeed,   \* the settings that apply_seed_if_needed has not come to
    first,    \* the values when the database was seeded
    others,   \* the settings somebody else than the lab has changed since
    changes   \* how many changes the owner made, for the bound

settings == <<version, stored, live, last, seeded, toSeed, first, others, changes>>

Row == Values \cup {NoRow}

SettingsTypeOK ==
    /\ version \in 0 .. MaxVersion
    /\ stored \in [Keys -> Row]
    /\ live \in [Keys -> Values]
    /\ last \in [Keys -> {NoEntry} \cup [old : Row, new : Row]]
    /\ seeded \in BOOLEAN
    /\ toSeed \subseteq DOMAIN Seed
    /\ first \in [Keys -> Values]
    /\ others \subseteq Keys
    /\ changes \in 0 .. MaxOthers

\* validate(): the value, or an error
Valid(k, value) == value \in Accepts[version][k]

\* reload(): a row the code does not take any more counts as the default.
Reloaded(table, v) ==
    [k \in Keys |-> IF table[k] \in Accepts[v][k] THEN table[k] ELSE Default[v][k]]

\* What is stored for a value: nothing for the default.
RowOf(k, value) == IF value = Default[version][k] THEN NoRow ELSE value

\* An entry of settings_history; nothing is written when the row stays.
Entry(k, row) == [old |-> stored[k], new |-> row]

\* g, but what f has
Over(f, g) == [k \in Keys |-> IF k \in DOMAIN f THEN f[k] ELSE g[k]]
Only(k, value) == [j \in {k} |-> value]

\* _write() and set_many(): all the rows, their history and the values in
\* memory, in one transaction.
Store(table) ==
    LET changed == {k \in DOMAIN table : table[k] # stored[k]}
    IN  /\ stored' = Over(table, stored)
        /\ last' = [k \in Keys |-> IF k \in changed THEN Entry(k, table[k]) ELSE last[k]]
        /\ live' = Reloaded(stored', version)

\* set_many(): every value is checked before any is stored.
SetMany(values) ==
    /\ \A k \in DOMAIN values : Valid(k, values[k])
    /\ Store([k \in DOMAIN values |-> RowOf(k, values[k])])

Up == toSeed = {}

\* The value in memory differs from what the lab last knew: somebody else's.
Others == others' = others \cup {k \in Keys : seeded /\ live'[k] # live[k]}

-----------------------------------------------------------------------------
SettingsInit ==
    /\ version = 0
    /\ stored = [k \in Keys |-> NoRow]
    /\ live = Default[0]
    /\ last = [k \in Keys |-> NoEntry]
    /\ seeded = (DOMAIN Seed = {})
    /\ toSeed = DOMAIN Seed
    /\ first = Default[0] /\ others = {} /\ changes = 0

\* apply_seed_if_needed(): one setting, or none if its value is refused.
SeedOne(k) ==
    /\ k \in toSeed
    /\ toSeed' = toSeed \ {k}
    /\ IF Valid(k, Seed[k]) THEN SetMany(Only(k, Seed[k])) ELSE UNCHANGED <<stored, live, last>>
    /\ seeded' = (toSeed' = {})
    /\ first' = live'
    /\ UNCHANGED <<version, others, changes>>

\* The owner saves a setting on its page.
SaveSetting(k) ==
    /\ Up /\ changes < MaxOthers /\ changes' = changes + 1
    /\ \E value \in Values : SetMany(Only(k, value))
    /\ Others
    /\ UNCHANGED <<version, seeded, toSeed, first>>

\* They put its default back.
ResetSetting(k) ==
    /\ Up /\ changes < MaxOthers /\ changes' = changes + 1
    /\ Store(Only(k, NoRow))
    /\ Others
    /\ UNCHANGED <<version, seeded, toSeed, first>>

\* They undo its latest change, whoever made it; an old value that is not
\* valid any more is refused.
RevertSetting(k) ==
    /\ Up /\ changes < MaxOthers /\ changes' = changes + 1
    /\ last[k] # NoEntry
    /\ IF last[k].old = NoRow THEN Store(Only(k, NoRow)) ELSE SetMany(Only(k, last[k].old))
    /\ Others
    /\ UNCHANGED <<version, seeded, toSeed, first>>

\* What a start seeds.
LeftToSeed == IF seeded THEN {} ELSE DOMAIN Seed

\* The process ends, also between two settings of the seed, and starts again,
\* perhaps on newer code.
RestartSettings ==
    /\ version' \in {v \in 0 .. MaxVersion : v \in {version, version + 1}}
    /\ toSeed' = LeftToSeed
    /\ live' = Reloaded(stored, version')
    /\ Others
    /\ UNCHANGED <<stored, last, seeded, first, changes>>

PageNext ==
    \E k \in Keys : SaveSetting(k) \/ ResetSetting(k) \/ RevertSetting(k)

-----------------------------------------------------------------------------
\* The values in memory are those of the database, and each setting's latest
\* history entry leads to its row, whoever changed it and on whatever code.
LiveIsExplained ==
    /\ live = Reloaded(stored, version)
    /\ \A k \in Keys : last[k] # NoEntry => last[k].new = stored[k]

\* The seed never overwrites a change of the owner or the lab: while any of it
\* is still to be applied, nobody else has changed a setting.
SeedComesFirst == ~Up => others = {}
=============================================================================
