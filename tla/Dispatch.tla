------------------------------ MODULE Dispatch ------------------------------
(* From a line of chat to the command it runs: findCommand's six ways of       *)
(* reading it, the nearest trigger to a misspelling among them, and what the   *)
(* bot offers to be typed.  A word is a sequence of letters, already folded to *)
(* lower case; a line is a sequence of words.  The lookups are Go maps, walked *)
(* in any order.  The access checks and the rows of a run are Chat's.          *)
EXTENDS Naturals, Sequences, SequencesExt, FiniteSetsExt

CONSTANTS
  Letters, Space,
  Bang, Inverted, One,  \* "!", and what keyboards without it at hand type for it
  Ghost,                \* the invisible word some clients send after a repeated line
  Commands, GuessCmd, CommandsCmd,
  NoCommand,
  Tables,               \* registries: [own, phrases : Commands -> words and phrases,
                        \*   shared, admin : sets of Commands, help : help lines]
  StateNames,           \* phrases
  BareWords,            \* words that open a line without their bang
  Featured,             \* triggers !commands lists
  Lines,                \* bound: what is said
  Typed                 \* bound: the words compared with triggers

Bangs(w) == w # <<>> /\ w[1] = Bang
Banged(w) == <<Bang>> \o w
TriggersOf(table) == UNION {table.own[c] : c \in Commands}

IsSequence(s) == s \in Seq(Range(s))
\* What triggers are spelled with.
Marks == Letters \cup {Bang}

\* No two commands share a spelling, a trigger is a word and a phrase more than
\* one, and no line is blank.
ASSUME DispatchConstants ==
  /\ {GuessCmd, CommandsCmd} \subseteq Commands /\ NoCommand \notin Commands
  /\ {Bang, Inverted, One, Space} \cap Letters = {} /\ Bang \notin {Inverted, One}
  /\ IsFiniteSet(Commands)
  /\ \A table \in Tables :
       /\ \A c \in Commands : /\ IsFiniteSet(table.own[c])
                             /\ table.own[c] \subseteq Seq(Marks) \ {<<>>}
                             /\ \A p \in table.phrases[c] : IsSequence(p) /\ Len(p) > 1
       /\ \A c, d \in Commands :
            c # d => /\ table.own[c] \cap table.own[d] = {}
                     /\ table.phrases[c] \cap table.phrases[d] = {}
       /\ IsSequence(table.help)
  /\ \A w \in Typed : IsSequence(w)
  /\ \A line \in Lines : /\ IsSequence(line) /\ line # <<>> /\ line[1] # <<>>
                        /\ \A i \in DOMAIN line : IsSequence(line[i])

VARIABLES
  commands,       \* App.commands
  full,           \* the platform's scope is scopeFull
  single, multi,  \* App.singleWordLookup, App.multiWordLookup
  helpIndex,
  heard           \* the line being handled, and what became of it

dispatchVars == <<commands, full, single, multi, helpIndex, heard>>

Silence == [line |-> <<>>, how |-> "silence", cmd |-> NoCommand, params |-> <<>>, offers |-> {}]

-----------------------------------------------------------------------------
(* The registry on this platform                                               *)

CommandEnabled(table, all, c) == all \/ c \in table.shared

Indexed(table, all, spellings) ==
  [w \in UNION {spellings[c] : c \in {d \in Commands : CommandEnabled(table, all, d)}} |->
     CHOOSE c \in Commands : w \in spellings[c]]

\* A line that opens with a command is kept where the command can be run; a
\* platform nobody is heard on has lines of another kind only.
Sayable(line) == Bangs(line[1]) => line[1] \in DOMAIN single
HelpMessages ==
  LET kept[i \in 0 .. Len(commands.help)] ==
        IF i = 0 THEN <<>>
        ELSE IF Sayable(commands.help[i]) THEN Append(kept[i - 1], commands.help[i])
        ELSE kept[i - 1]
  IN kept[Len(commands.help)]

Platforms == {"twitch", "youtube", "facebook", "instagram", "tiktok"}
CommandScope == [p \in Platforms |-> IF p = "twitch" THEN "full" ELSE "v1"]

DispatchInit ==
  /\ commands \in Tables
  /\ \E p \in Platforms : full = (CommandScope[p] = "full")
  /\ single = Indexed(commands, full, commands.own)
  /\ multi = Indexed(commands, full, commands.phrases)
  /\ helpIndex \in 1 .. Len(HelpMessages) \cup {x \in {1} : HelpMessages = <<>>}
  /\ heard = Silence

\* The command a word names though nothing dispatches it here.
UnindexedCommand(w) ==
  {c \in Commands : w \in commands.own[c] /\ ~CommandEnabled(commands, full, c)}

-----------------------------------------------------------------------------
(* The nearest spelling                                                        *)

FuzzyMaxDistance(length) == IF length < 4 THEN 0 ELSE IF length <= 6 THEN 1 ELSE 2

EditCost(x, y) == IF x = y THEN 0 ELSE 1

\* Row i of the table of distances, from row i - 1.
EditRow(prev, i, x, b) ==
  LET curr[j \in 0 .. Len(b)] ==
        IF j = 0 THEN i
        ELSE Min({prev[j] + 1, curr[j - 1] + 1, prev[j - 1] + EditCost(x, b[j])})
  IN curr

Levenshtein(a, b) ==
  LET row[i \in 0 .. Len(a)] ==
        IF i = 0 THEN [j \in 0 .. Len(b) |-> j] ELSE EditRow(row[i - 1], i, a[i], b)
  IN row[Len(a)][Len(b)]

Spellings == UNION {TriggersOf(table) : table \in Tables}
Distance == [w \in Typed |-> [t \in Spellings |-> Levenshtein(w, t)]]

\* The slip in which a tie further away is held against a closer trigger.
CloserStillTied(best, name, dist) ==
  IF dist < best.dist THEN [name |-> name, dist |-> dist, ambiguous |-> best.ambiguous]
  ELSE [best EXCEPT !.ambiguous = @ \/ (dist = best.dist /\ name # best.name)]

\* One trigger is looked at: best so far, at what distance, and whether another
\* is as close.
Closer(best, name, dist) ==
  IF dist < best.dist THEN [name |-> name, dist |-> dist, ambiguous |-> FALSE]
  ELSE [best EXCEPT !.ambiguous = @ \/ (dist = best.dist /\ name # best.name)]

Near(w) == {t \in DOMAIN single : Bangs(t) /\ Distance[w][t] <= FuzzyMaxDistance(Len(w))}

\* The triggers in reach, in the order the map happens to be walked.
FuzzyLookup(w, walk) ==
  LET best[i \in 0 .. Len(walk)] ==
        IF i = 0
        THEN [name |-> NoCommand, dist |-> FuzzyMaxDistance(Len(w)) + 1, ambiguous |-> FALSE]
        ELSE Closer(best[i - 1], single[walk[i]], Distance[w][walk[i]])
      last == best[Len(walk)]
  IN IF FuzzyMaxDistance(Len(w)) = 0 \/ last.ambiguous THEN NoCommand ELSE last.name

Spelled(phrase) == FoldLeft(LAMBDA s, w : IF s = <<>> THEN w ELSE s \o <<Space>> \o w, <<>>, phrase)

\* The state !guess takes a misspelled one for; <<>> leaves it as typed.
FuzzyStateName(guess) ==
  LET reach == FuzzyMaxDistance(Len(Spelled(guess)))
      dist(name) == Levenshtein(Spelled(guess), Spelled(name))
      look(best, name) == IF dist(name) > reach THEN best ELSE Closer(best, name, dist(name))
      best == FoldLeft(look, [name |-> <<>>, dist |-> reach + 1, ambiguous |-> FALSE],
                       SetToSeq(StateNames))
  IN IF guess \in StateNames \/ guess = <<>> \/ reach = 0 \/ best.ambiguous THEN <<>> ELSE best.name

-----------------------------------------------------------------------------
(* Reading a line                                                              *)

NormalizeCommandPrefix(w) ==
  IF w[1] = Inverted \/ (w[1] = One /\ Len(w) > 1 /\ w[2] \in Letters)
  THEN Banged(Tail(w)) ELSE w

Unghosted(params) ==
  IF params # <<>> /\ Last(params) = Ghost THEN Front(params) ELSE params

\* "! location" is "!location".
Opening(split) ==
  LET params == Unghosted(Tail(split)) IN
  IF split[1] = <<Bang>> /\ params # <<>>
  THEN [command |-> Banged(params[1]), params |-> Tail(params)]
  ELSE [command |-> split[1], params |-> params]

\* The state a word and what follows it name: all of it, or the word alone.
StateGuessParams(word, params) ==
  CASE <<word>> \o params \in StateNames -> <<word>> \o params
    [] <<word>> \in StateNames -> <<word>>
    [] OTHER -> <<>>

\* The longest trigger the word goes on from, and what is glued to it.
SplitSpaceless(w) ==
  LET fits == {t \in DOMAIN single : Bangs(t) /\ IsStrictPrefix(t, w)} IN
  {[cmd |-> single[t], rest |-> SubSeq(w, Len(t) + 1, Len(w))] :
     t \in {u \in fits : \A v \in fits : Len(v) <= Len(u)}}

Ran(how, c, params) == [how |-> how, cmd |-> c, params |-> params]

Indexes == {single[t] : t \in DOMAIN single}

ByPhrase(split) ==
  {Ran("phrase", multi[p], SubSeq(split, Len(p) + 1, Len(split))) :
     p \in {q \in DOMAIN multi : IsPrefix(q, split)}}
ByWord(o) == {Ran("word", single[w], o.params) : w \in {o.command} \cap DOMAIN single}
\* "help" is for the bot; "help me find the map" is for the others in chat.
ByBareWord(o) ==
  {Ran("bare", single[Banged(w)], <<>>) :
     w \in {v \in {o.command} \cap BareWords : o.params = <<>> /\ Banged(v) \in DOMAIN single}}
\* The slip in which a state's name guesses on every platform.
ByStateEverywhere(o) ==
  LET state == StateGuessParams(Tail(o.command), o.params) IN
  {Ran("state", GuessCmd, s) : s \in {state} \ {<<>>}}
ByState(o) ==
  LET state == StateGuessParams(Tail(o.command), o.params) IN
  {Ran("state", GuessCmd, s) : s \in {state} \ IF GuessCmd \in Indexes THEN {<<>>} ELSE {state}}
ByTypo(o, walk) ==
  {Ran("typo", c, o.params) : c \in {FuzzyLookup(o.command, walk)} \ {NoCommand}}
ByGluedState(o) ==
  {Ran("glued", s.cmd, <<s.rest>> \o o.params) :
     s \in {x \in SplitSpaceless(o.command) : StateGuessParams(x.rest, o.params) # <<>>}}

Ways(split, walk) ==
  LET o == Opening(split)
      asked == Bangs(o.command)
  IN <<ByPhrase(split), ByWord(o), ByBareWord(o),
       IF asked THEN ByState(o) ELSE {},
       IF asked THEN ByTypo(o, walk) ELSE {},
       IF asked THEN ByGluedState(o) ELSE {}>>

\* The first way there is.
FindCommand(split, walk) ==
  LET ways == Ways(split, walk)
  IN UNION {ways[i] : i \in {k \in 1 .. 6 : \A h \in 1 .. k - 1 : ways[h] = {}}}

-----------------------------------------------------------------------------
(* What the bot offers                                                         *)

\* !commands lists what runs here, or explains the one it is asked about; an
\* admin's command is not let on.
CommandsOffers(params) ==
  IF params = <<>> THEN Featured \cap DOMAIN single
  ELSE {w \in {IF Bangs(params[1]) THEN params[1] ELSE Banged(params[1])} \cap DOMAIN single :
          single[w] \notin commands.admin}

Split(line) == <<NormalizeCommandPrefix(line[1])>> \o Tail(line)

\* What no way of reading it runs: a command that is off here is said to be.
NotFound(split) ==
  LET word == IF split[1] = <<Bang>> /\ Len(split) > 1 THEN Banged(split[2]) ELSE split[1] IN
  IF ~Bangs(word) THEN "talk"
  ELSE IF UnindexedCommand(word) # {} THEN "wrong_platform" ELSE "unknown"

\* guessCmd takes the state nearest to what it is given.
Handler(c, params) ==
  IF c = GuessCmd /\ FuzzyStateName(params) # <<>> THEN FuzzyStateName(params) ELSE params

RunCommand(line) ==
  /\ heard = Silence
  /\ LET split == Split(line)
         command == Opening(split).command
         near == IF command \in Typed THEN Near(command) ELSE {}
     IN \E walk \in SetToSeqs(near) :
          \/ \E run \in FindCommand(split, walk) :
               heard' = [line |-> line, how |-> run.how, cmd |-> run.cmd,
                         params |-> Handler(run.cmd, run.params),
                         offers |-> IF run.cmd = CommandsCmd THEN CommandsOffers(run.params) ELSE {}]
          \/ /\ FindCommand(split, walk) = {}
             /\ heard' = [Silence EXCEPT !.line = line, !.how = NotFound(split)]
  /\ UNCHANGED <<commands, full, single, multi, helpIndex>>

\* Every so often the bot says the next of its help lines.
Chatter ==
  /\ heard = Silence /\ HelpMessages # <<>>
  /\ heard' = [Silence EXCEPT !.how = "offer",
                 !.offers = {w \in {HelpMessages[helpIndex][1]} : Bangs(w)}]
  /\ helpIndex' = (helpIndex % Len(HelpMessages)) + 1
  /\ UNCHANGED <<commands, full, single, multi>>

Handled == heard # Silence /\ heard' = Silence
           /\ UNCHANGED <<commands, full, single, multi, helpIndex>>

DispatchNext == Chatter \/ Handled \/ \E line \in Lines : RunCommand(line)

DispatchSpec == DispatchInit /\ [][DispatchNext]_dispatchVars

-----------------------------------------------------------------------------
(* What should hold                                                            *)

DispatchTypeOK ==
  /\ commands \in Tables /\ full \in BOOLEAN
  /\ \A w \in DOMAIN single : single[w] \in Commands
  /\ heard.cmd \in Commands \cup {NoCommand} /\ heard.offers \subseteq DOMAIN single

\* What one deletion, insertion or substitution makes of a word, and k of them.
OneEdit(w) ==
  {SubSeq(w, 1, i - 1) \o SubSeq(w, i + 1, Len(w)) : i \in DOMAIN w}
    \cup {SubSeq(w, 1, i) \o <<x>> \o SubSeq(w, i + 1, Len(w)) :
            i \in 0 .. Len(w), x \in Marks}
    \cup {[w EXCEPT ![i] = x] : i \in DOMAIN w, x \in Marks}
Edits == [w \in Typed |->
            LET once == OneEdit(w) IN <<{w}, once, UNION {OneEdit(v) : v \in once}>>]
\* The commands a word can be turned into the trigger of by k edits or fewer.
Reached(w, k) ==
  {single[t] : t \in {u \in DOMAIN single : Bangs(u) /\ \E i \in 0 .. k : u \in Edits[w][i + 1]}}
Sole(w) ==
  {c \in Commands : \E k \in 1 .. FuzzyMaxDistance(Len(w)) :
     Reached(w, k) = {c} /\ Reached(w, k - 1) = {}}

\* A misspelled command runs the one command fewest edits away, whatever order
\* the lookup is walked in: a tie runs nothing, a tie further away does not
\* count, and nothing is left unknown that has a nearest (fuzzyLookup and
\* levenshtein, against edits counted one by one).
TypoRunsTheNearest ==
  LET w == IF heard.line = <<>> THEN <<>> ELSE Opening(Split(heard.line)).command IN
  /\ heard.how = "typo" => Sole(w) = {heard.cmd}
  /\ heard.how \in {"glued", "unknown", "wrong_platform"} /\ w \in Typed => Sole(w) = {}

\* A command that is off on this platform is run by no spelling of it, neither
\* its aliases, a state's name, a slip nor a state glued to it (commandEnabled,
\* indexCommands); its trigger alone is answered as such unless something else
\* was meant, and whatever the bot offers to be typed, typed, runs.
OnlyWhatRunsHere ==
  /\ heard.cmd # NoCommand => CommandEnabled(commands, full, heard.cmd)
  /\ heard.how = "unknown" /\ Len(heard.line) = 1 => UnindexedCommand(heard.line[1]) = {}
  /\ \A w \in heard.offers : \E run \in FindCommand(<<w>>, <<>>) :
       run.how = "word" /\ CommandEnabled(commands, full, run.cmd)

\* A line runs what it was meant to, and only what runs on this platform.
LinesAreUnderstood == TypoRunsTheNearest /\ OnlyWhatRunsHere
=============================================================================
