------------------------------ MODULE Audience ------------------------------
(* The minute-by-minute sample of how many are watching, and the viewer_record *)
(* event a sample that beats the platform's history leaves (viewstats).        *)
EXTENDS Naturals, Sequences, FiniteSetsExt

CONSTANTS
  Samplers,       \* overlapping ticks of UpdateSession
  Counts,         \* the viewer counts a gateway may answer
  NoReading,      \* an Audience with Reported false: NULL in the row
  Unseeded,       \* peaks has no entry for the platform
  Samples, AudienceFaults    \* bounds: ticks, failing calls and restarts

ASSUME AudienceConstants ==
  /\ Counts \subseteq Nat /\ IsFiniteSet(Counts) /\ {NoReading, Unseeded} \cap Nat = {}
  /\ Samples \in Nat /\ AudienceFaults \in Nat

VARIABLES
  stored,         \* the counts in viewer_samples
  records,        \* the viewer_record events
  lastAudience,   \* Tripbot.lastAudience, shared by the ticks
  peak,           \* viewstats.peaks of this platform
  sampler,        \* the ticks
  life, taken, audienceFaults

audienceVars == <<stored, records, lastAudience, peak, sampler, life, taken, audienceFaults>>

IdleSampler == [step |-> "idle", count |-> NoReading, previous |-> 0, record |-> 0]

AudienceInit ==
  /\ stored = {} /\ records = <<>> /\ lastAudience = NoReading /\ peak = Unseeded
  /\ sampler = [m \in Samplers |-> IdleSampler]
  /\ life = 1 /\ taken = 0 /\ audienceFaults = 0

AudienceFault == audienceFaults < AudienceFaults /\ audienceFaults' = audienceFaults + 1
NoAudienceFault == UNCHANGED audienceFaults

\* A reading that fails is discarded, never carried over from the tick before.
UpdateAudience(m) ==
  /\ sampler[m].step = "idle" /\ taken < Samples /\ taken' = taken + 1
  /\ \E reading \in Counts \cup {NoReading} : lastAudience' = reading
  /\ sampler' = [sampler EXCEPT ![m].step = "check"]
  /\ UNCHANGED <<stored, records, peak, life, audienceFaults>>

\* 0 for an empty series.
StoredPeak == Max(stored \cup {0})

\* The bar to beat: remembered, or read from the history; a failed read leaves
\* the platform unseeded and the tick without a check.
BarOfZero == IF peak # Unseeded THEN {peak} ELSE {StoredPeak} \cup {0}
Bar == {IF peak # Unseeded THEN peak ELSE StoredPeak}

CheckPeak(m) ==
  /\ sampler[m].step = "check"
  /\ LET count == lastAudience
         To(step) == [sampler EXCEPT ![m].step = step, ![m].count = count]
     IN  \/ count \in {NoReading, 0} /\ sampler' = To("insert") /\ UNCHANGED <<peak, audienceFaults>>
         \/ /\ count \notin {NoReading, 0} /\ NoAudienceFault
            /\ \E previous \in Bar :
                 /\ peak' = Max({previous, count})
                 /\ sampler' = IF count > previous /\ previous # 0
                               THEN [To("announce") EXCEPT ![m].previous = previous]
                               ELSE To("insert")
         \/ /\ count \notin {NoReading, 0} /\ peak = Unseeded /\ AudienceFault
            /\ sampler' = To("insert") /\ UNCHANGED peak
  /\ UNCHANGED <<stored, records, lastAudience, life, taken>>

ViewerRecord(m) ==
  /\ sampler[m].step = "announce"
  /\ \/ /\ NoAudienceFault
        /\ records' = Append(records, [viewers |-> sampler[m].count,
             previous |-> sampler[m].previous, life |-> life, kept |-> FALSE])
        /\ sampler' = [sampler EXCEPT ![m].step = "insert", ![m].record = Len(records) + 1]
     \/ AudienceFault /\ sampler' = [sampler EXCEPT ![m].step = "insert"] /\ UNCHANGED records
  /\ UNCHANGED <<stored, lastAudience, peak, life, taken>>

InsertSample(m) ==
  LET s == sampler[m] IN
  /\ s.step = "insert" /\ sampler' = [sampler EXCEPT ![m] = IdleSampler]
  /\ \/ /\ NoAudienceFault /\ stored' = stored \cup ({s.count} \ {NoReading})
        /\ records' = IF s.record = 0 THEN records
                      ELSE [records EXCEPT ![s.record].kept = TRUE]
     \/ AudienceFault /\ UNCHANGED <<stored, records>>
  /\ UNCHANGED <<lastAudience, peak, life, taken>>

AudienceRestart ==
  /\ AudienceFault /\ life' = life + 1
  /\ lastAudience' = NoReading /\ peak' = Unseeded
  /\ sampler' = [m \in Samplers |-> IdleSampler]
  /\ UNCHANGED <<stored, records, taken>>

AudienceNext ==
  \/ \E m \in Samplers : UpdateAudience(m) \/ CheckPeak(m) \/ ViewerRecord(m) \/ InsertSample(m)
  \/ AudienceRestart

AudienceSpec == AudienceInit /\ [][AudienceNext]_audienceVars

-----------------------------------------------------------------------------
(* Properties. *)

AudienceTypeOK ==
  /\ stored \subseteq Counts /\ lastAudience \in Counts \cup {NoReading}
  /\ peak \in Counts \cup {Unseeded}
  /\ \A m \in Samplers : sampler[m].step \in {"idle", "check", "announce", "insert"}

\* No milestone is announced twice: the ranges (previous, viewers] of two records
\* never overlap, across overlapping ticks and across restarts, once the first
\* one's sample is in the table a restart reads the bar from (viewstats.go,
\* peaks: "the high is a property of the history, not of this process").
RecordsOnlyClimb ==
  \A i, j \in DOMAIN records :
    i < j /\ (records[i].life = records[j].life \/ records[i].kept) =>
      \/ records[j].previous >= records[i].viewers
      \/ records[i].life = records[j].life /\ records[i].previous >= records[j].viewers
=============================================================================
