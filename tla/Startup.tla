------------------------------ MODULE Startup ------------------------------
(***************************************************************************)
(* cbc_new: a configuration, written by the Go wrapper or by hand, is      *)
(* parsed, and the cache is constructed from what the parser has found.    *)
(* Composes Json (the parser, step by step) and Config (the constructor).  *)
(***************************************************************************)
EXTENDS Json, Config

CONSTANT Sources    \* configurations: what they are made of and their text

VARIABLES
    source,     \* the configuration given, NoSource for none
    cache       \* the parameters of the cache, NoCache before it is there

startupVars == <<jsonVars, source, cache>>

NoSource == [kind |-> "none"]
NoCache == [shards_cnt |-> 0]

-----------------------------------------------------------------------------
(* Configurations.  A member is its name, type and value; the value of an  *)
(* object is its members, and no member of these is an object.             *)

ScalarTokens(member) == Member(member[1], <<Word(member[2], member[3])>>)
MemberTokens(member) ==
    IF member[2] # "o" THEN ScalarTokens(member)
    ELSE Member(member[1], Braced([n \in DOMAIN member[3] |-> ScalarTokens(member[3][n])]))
Tokens(members) == Braced([n \in DOMAIN members |-> MemberTokens(members[n])])

(* A spaced text has a space behind every sign and every word.             *)
Spaced(tokens) == FlattenSeq([n \in DOMAIN tokens |-> <<tokens[n], Sign(" ")>>])

(* What the Go wrapper makes of members without objects: { n : v , ... }.  *)
GoText(members) ==
    [p \in 1..(4 * Len(members) + 1) |->
       LET member == members[(p + 2) \div 4] IN
       CASE p = 1                      -> Sign("{")
         [] p % 4 = 2                  -> Word("s", member[1])
         [] p % 4 = 3                  -> Sign(":")
         [] p % 4 = 0                  -> Word(member[2], member[3])
         [] p = 4 * Len(members) + 1   -> Sign("}")
         [] OTHER                      -> Sign(",")]

(* By hand, and by NewCBigCache from a Config.                             *)
Document(members, spaced) ==
    [kind |-> "document", members |-> members, spaced |-> spaced,
     text |-> IF spaced THEN Spaced(Tokens(members)) ELSE Tokens(members)]
GoSource(c) ==
    [kind |-> "go", config |-> c, members |-> Marshalled(c), spaced |-> FALSE,
     text |-> GoText(Marshalled(c))]

(* The sources are documents and texts of the Go wrapper.                  *)
ASSUME SourcesAssumption ==
    \A s \in Sources :
        /\ s.kind \in {"document", "go"}
        /\ s.kind = "go" => s.config \in GoConfig /\ s = GoSource(s.config)

-----------------------------------------------------------------------------
(* What the constructor looks up in the parsed configuration.              *)
Found ==
    [verbose_lvl |-> Get(json, "i", <<"verbose_lvl">>, DefVerbose),
     shards_cnt |-> GetInz(json, <<"shards_cnt">>, DefShards),
     force_set |-> Get(json, "b", <<"force_set">>, FALSE),
     max_size |-> GetInz(json, <<"max_size">>, Avail),
     expire_ns |-> Get(json, "i", <<"expire_ns">>, DefExpire),
     vacuum_ns |-> Get(json, "i", <<"vacuum_ns">>, DefVacuum)]

StartupInit ==
    /\ cache = NoCache
    /\ json = NoData
    /\ \/ /\ source \in Sources
          /\ text = source.text
          /\ frames = <<Frame(1)>>
          /\ stage = "parse"
       \/ /\ source = NoSource
          /\ text = <<>>
          /\ frames = <<>>
          /\ stage = "none"

(* With a configuration, and without: then nothing is looked up.           *)
Construct ==
    /\ stage = "parsed" /\ cache = NoCache
    /\ cache' = Constructed(Found)
    /\ UNCHANGED <<jsonVars, source>>

ConstructPlain ==
    /\ stage = "none" /\ cache = NoCache
    /\ cache' = Initial
    /\ UNCHANGED <<jsonVars, source>>

(* The constructor does not marshal: this is the round trip of             *)
(* tests/test_json.cpp, with the same text.                                *)
RoundTrip ==
    /\ cache # NoCache
    /\ Reparse
    /\ UNCHANGED <<source, cache>>

Parse == ParseStep /\ UNCHANGED <<source, cache>>

StartupNext == Parse \/ Construct \/ ConstructPlain \/ RoundTrip

StartupSpec == StartupInit /\ [][StartupNext]_startupVars
-----------------------------------------------------------------------------
(* Whatever the text: every integer that the parser hands out fits into 64 *)
(* bits, and a nested call of unmarshal is for an object of the text that  *)
(* opens behind its caller's, so that the recursion is never deeper than   *)
(* the text has objects.                                                   *)
IntsFit(data) == \A k \in DOMAIN data : k[1] = "i" => data[k] \in Int64
StartupTypeOK ==
    /\ stage \in {"none", "parse", "parsed", "reparse", "reparsed"}
    /\ IntsFit(json)
    /\ \A n \in DOMAIN frames : IntsFit(frames[n].data)
    /\ \A n \in 2..Len(frames) :
          /\ frames[n - 1].offset < frames[n].offset
          /\ frames[n].offset <= Len(text) /\ Type(text[frames[n].offset]) = "{"

(* Whatever the configuration says, and however its text is made, a cache  *)
(* only comes to life with a power of two as its number of shards and      *)
(* times, size and verbosity that are in range (bigcache.cpp:26-56: limits *)
(* are checked on what the conversions to unsigned have made of the        *)
(* numbers).                                                               *)
ParamsInRange == cache # NoCache => Valid(cache)

(* A parameter that the Go application gives, and that is valid, is taken  *)
(* over as it is; a duration counts if no nanoseconds are given, and no    *)
(* size means half of the free memory.                                     *)
TakenOver(ns, duration, min, used) ==
    /\ ns \in min..(Half - 1) => used = ns
    /\ ns = 0 /\ duration \in min..(Half - 1) => used = duration
ValidIsObeyed ==
    cache # NoCache /\ source.kind = "go" =>
      LET c == source.config IN
      /\ c.Shards \in MinShards..MaxShards /\ IsPow2(c.Shards) => cache.shards_cnt = c.Shards
      /\ c.Shards = 0 => cache.shards_cnt = DefShards
      /\ cache.force_set = c.ForceSet
      /\ TakenOver(c.ExpireNs, c.Expire, MinExpire, cache.expire_ns)
      /\ TakenOver(c.VacuumNs, c.Vacuum, MinVacuum, cache.vacuum_ns)
      /\ c.MaxSize \in 1..(Half - 1) => cache.max_size = c.MaxSize
      /\ c.MaxSize = 0 /\ Avail > 0 => cache.max_size = Avail

(* Periods are unsigned, but the supervisors sleep for a signed number of  *)
(* nanoseconds.  A cache made by the Go wrapper has periods that are       *)
(* positive as such numbers too, negative durations included: config.go    *)
(* makes a huge number of them, and strtol cuts it to the largest.         *)
GoPeriodsPositive ==
    cache # NoCache /\ source.kind = "go" =>
      I64(cache.expire_ns) >= MinExpire /\ I64(cache.vacuum_ns) >= MinVacuum

(* get_shard finds a shard for every hash, and every shard gets its share  *)
(* of the hashes; the supervisors' groups divide the shards evenly.        *)
Routing ==
    cache # NoCache =>
      /\ \A hash \in 0..(Word64 - 1) : ShardOf(cache, hash) \in ShardIndices(cache)
      /\ \A i \in ShardIndices(cache) :
           Cardinality({hash \in 0..(Word64 - 1) : ShardOf(cache, hash) = i})
             * cache.shards_cnt = Word64
      /\ cache.shards_cnt >= 4 => cache.shards_cnt % 4 = 0

(* The shards together stay within the size asked for, and the pages that  *)
(* the constructor of Shard prepares hold the whole shard, unless it is so *)
(* small that rounding the page down takes too much: the condition of      *)
(* PagesSuffice in ShardStore.                                             *)
SpaceIsHeld ==
    cache # NoCache =>
      /\ cache.shards_cnt * ShardSize(cache) <= cache.max_size
      /\ EnoughForPages(ShardSize(cache)) =>
           PageSize(ShardSize(cache)) >= 1 /\ PagesHold(ShardSize(cache))

-----------------------------------------------------------------------------
(* What a document says.                                                   *)
Value(type, value) == CASE type = "s" -> <<Word("s", value)>>
                        [] type = "i" -> Atoi64(value)
                        [] OTHER      -> value
Holds(path, type, value) ==
    \E o \in Holders(json, path) :
      LET key == <<type, path[Len(path)]>> IN key \in DOMAIN o /\ o[key] = Value(type, value)

IsObject(member) == member[2] = "o"
Kept(member, path) == member[2] = "null" \/ Holds(path, member[2], member[3])
ReadBack(member) ==
    IF IsObject(member)
    THEN \A n \in DOMAIN member[3] : Kept(member[3][n], <<member[1], member[3][n][1]>>)
    ELSE Kept(member, <<member[1]>>)

(* Documents that name nothing twice and have no empty objects, and in     *)
(* their objects no others; a Config is one.                               *)
ScalarTypes == {"s", "i", "f", "b", "null"}
Members(m, types) ==
    /\ m \in Seq(Range(m)) /\ m # <<>>
    /\ \A n \in DOMAIN m : m[n][2] \in types
    /\ \A n, k \in DOMAIN m : m[n][1] = m[k][1] => n = k
Proper(s) ==
    s.kind = "document" =>
      /\ s.spaced \in BOOLEAN /\ s = Document(s.members, s.spaced)
      /\ Members(s.members, ScalarTypes \cup {"o"})
      /\ \A n \in DOMAIN s.members :
           IsObject(s.members[n]) => Members(s.members[n][3], ScalarTypes)

(* A parsed document has each of its members, found by its path, with the  *)
(* value it says (null aside, which is not kept), and nothing else but an  *)
(* empty string or a misread one under the name of an object.  In a text   *)
(* without spaces the member that follows an object directly is excepted,  *)
(* and so are texts in which that is another object: the parser resumes    *)
(* one character too far (json.cpp:66).                                    *)
ReadsBack ==
    stage = "parsed" /\ source # NoSource /\ Proper(source) =>
      LET m == source.members
          Behind(n) == ~source.spaced /\ n > 1 /\ IsObject(m[n - 1])
      IN  (\A n \in DOMAIN m : ~(Behind(n) /\ IsObject(m[n]))) =>
            /\ \A n \in DOMAIN m : Behind(n) \/ ReadBack(m[n])
            /\ \A key \in DOMAIN json :
                 \E n \in DOMAIN m : \/ key = <<m[n][2], m[n][1]>>
                                     \/ IsObject(m[n]) /\ key = <<"s", m[n][1]>>

(* What the parser makes of the members that marshal wrote: a float is     *)
(* what its text says, under the type that this has; the others are as     *)
(* they were.  No two of them may fall together by it.                     *)
PrintedKey(data, key) ==
    IF key[1] = "f" THEN <<Type(Stream(data[key])), key[2]>> ELSE key
PrintedValue(data, key) ==
    IF key[1] = "f" THEN Value(Type(Stream(data[key])), Stream(data[key])[2]) ELSE data[key]
OneForOne(data) ==
    \A k, l \in DOMAIN data : PrintedKey(data, k) = PrintedKey(data, l) => k = l
Reprinted(old, new) ==
    /\ DOMAIN new = {PrintedKey(old, key) : key \in DOMAIN old}
    /\ \A key \in DOMAIN old :
          key[1] # "o" => new[PrintedKey(old, key)] = PrintedValue(old, key)

(* What marshal writes is parsed to the same data (tests/test_json.cpp,    *)
(* json_marshal), but for the floats: these are rounded, and those that    *)
(* are written without a point come back as integers or strings.  This is  *)
(* said of data with no more than one object: marshal puts it last.        *)
ObjectKeys(data) == {key \in DOMAIN data : key[1] = "o"}
MarshalKeeps ==
    [][ /\ stage = "reparse" /\ stage' = "reparsed"
        /\ Cardinality(ObjectKeys(json)) <= 1
        /\ OneForOne(json) /\ \A key \in ObjectKeys(json) : OneForOne(json[key])
        => /\ Reprinted(json, json')
           /\ \A key \in ObjectKeys(json) : Reprinted(json[key], json'[key]) ]_startupVars
=============================================================================
