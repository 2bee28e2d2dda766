-------------------------------- MODULE Json --------------------------------
(***************************************************************************)
(* The JSON parser of json.cpp: Json::unmarshal as the machine it is, one  *)
(* step per turn of its loop, with a stack of frames for its recursive     *)
(* calls, and Json::marshal and the get_ functions as operators.           *)
(*                                                                         *)
(* The text is a sequence of tokens, a name, a value or one of the signs   *)
(* { } : , and space.  The code goes by characters; the two agree here     *)
(* since the only arithmetic on positions, the jump behind a nested        *)
(* object, jumps over whole tokens as long as a nested object has no       *)
(* objects in it, and the one character it skips too many is a sign.       *)
(***************************************************************************)
EXTENDS Helpers, SequencesExt

CONSTANT
    Streamed    \* [floats that `<<' does not write as they are -> what it writes]

VARIABLES
    text,       \* the tokens
    frames,     \* the calls of unmarshal in progress, the innermost last
    json,       \* what the outermost call has filled in, once it returned
    stage       \* "parse", "parsed", "reparse" or "reparsed"

jsonVars == <<text, frames, json, stage>>

-----------------------------------------------------------------------------
(* Tokens.  The name of a member is a string like any other.  A value of   *)
(* type "s" is kept as the tokens it is made of: a string that the parser  *)
(* collects by mistake may have several.                                   *)

Sign(c) == <<c, 0>>
Word(type, value) == <<type, value>>
Type(t) == t[1]

(* An object maps its keys, a type and a name, to values: data_s, data_i,  *)
(* data_f, data_b and data_o in one function.                              *)
NoData == [k \in {} |-> 0]
With(data, key, value) ==
    [k \in DOMAIN data \cup {key} |-> IF k = key THEN value ELSE data[k]]

Name(left) == IF left = <<>> THEN "" ELSE left[1][2]

(* What is between ':' and ',' counts as a string unless it is one word of *)
(* another type; nothing at all is the string without characters.          *)
RightType(right) ==
    IF Len(right) = 1 /\ Type(right[1]) \in {"i", "f", "b", "null"} THEN Type(right[1]) ELSE "s"
RightValue(right) ==
    CASE RightType(right) = "s" -> IF right = <<>> THEN <<Word("s", "")>> ELSE right
      [] RightType(right) = "i" -> Atoi64(right[1][2])
      [] OTHER                  -> right[1][2]

(* operator<< of a stream writes a float with six digits, and the point    *)
(* only if digits follow it: 1.2345678 as 1.23457, 2.0 as the integer 2,   *)
(* 1000000.5 as 1e+06, which the parser takes for a string.                *)
ASSUME StreamedAssumption ==
    \A x \in DOMAIN Streamed :
        /\ Streamed[x] = Word(Type(Streamed[x]), Streamed[x][2])
        /\ Type(Streamed[x]) \in {"f", "i", "s"}
Stream(x) == IF x \in DOMAIN Streamed THEN Streamed[x] ELSE Word("f", x)

-----------------------------------------------------------------------------
(* Json::unmarshal.                                                        *)

Frame(offset) == [offset |-> offset, i |-> offset, captured_len |-> 0, l |-> TRUE,
                  left |-> <<>>, right |-> <<>>, data |-> NoData]

Top == frames[Len(frames)]
SetTop(frame) == frames' = [frames EXCEPT ![Len(frames)] = frame]
More == stage \in {"parse", "reparse"} /\ Top.i <= Len(text)
Reads(c) == More /\ Type(text[Top.i]) = c

(* The next turn of the loop, with the character counted.                  *)
Next1(frame) == [frame EXCEPT !.i = @ + 1, !.captured_len = @ + 1]

SkipSpace ==
    /\ Reads(" ")
    /\ SetTop(Next1(Top))
    /\ UNCHANGED <<text, json, stage>>

ReadColon ==
    /\ Reads(":") /\ Top.l
    /\ SetTop([Next1(Top) EXCEPT !.l = FALSE])
    /\ UNCHANGED <<text, json, stage>>

EnterOwn ==
    /\ Reads("{") /\ Top.i = Top.offset
    /\ SetTop(Next1(Top))
    /\ UNCHANGED <<text, json, stage>>

CallNested ==
    /\ Reads("{") /\ Top.i # Top.offset
    /\ frames' = Append([frames EXCEPT ![Len(frames)].captured_len = @ + 1], Frame(Top.i))
    /\ UNCHANGED <<text, json, stage>>

(* The member read is filed under its type; null is not filed.             *)
Filed(frame) ==
    LET type == RightType(frame.right) IN
    [Next1(frame) EXCEPT
       !.data = IF type = "null" THEN @
                ELSE With(@, <<type, Name(frame.left)>>, RightValue(frame.right)),
       !.l = TRUE, !.left = <<>>, !.right = <<>>]

BugReadComma ==
    /\ Reads(",")
    /\ SetTop([Filed(Top) EXCEPT !.right = Top.right])
    /\ UNCHANGED <<text, json, stage>>

ReadComma ==
    /\ Reads(",")
    /\ SetTop(Filed(Top))
    /\ UNCHANGED <<text, json, stage>>

(* A call returns.  Its caller files the object, jumps over what the call  *)
(* has captured and, by `continue', one character further; it still reads  *)
(* the value of the member (l is not reset).                               *)
Return(frame) ==
    IF Len(frames) = 1
    THEN /\ json' = frame.data
         /\ stage' = IF stage = "parse" THEN "parsed" ELSE "reparsed"
         /\ frames' = <<>>
         /\ UNCHANGED text
    ELSE LET caller == frames[Len(frames) - 1] IN
         /\ frames' = Append(SubSeq(frames, 1, Len(frames) - 2),
              [caller EXCEPT !.data = With(@, <<"o", Name(caller.left)>>, frame.data),
                             !.i = @ + frame.captured_len + 1])
         /\ UNCHANGED <<text, json, stage>>

ReadBrace == Reads("}") /\ Return(Filed(Top))

(* The text ends without '}': what was being read is dropped.              *)
EndOfText == stage \in {"parse", "reparse"} /\ Top.i > Len(text) /\ Return(Top)

(* Anything else, and a ':' in a value, is collected.                      *)
Collect ==
    /\ More /\ Type(text[Top.i]) \notin {" ", "{", "}", ","}
    /\ Reads(":") => ~Top.l
    /\ SetTop(IF Top.l THEN [Next1(Top) EXCEPT !.left = Append(@, text[Top.i])]
              ELSE [Next1(Top) EXCEPT !.right = Append(@, text[Top.i])])
    /\ UNCHANGED <<text, json, stage>>

-----------------------------------------------------------------------------
(* Json::marshal, for objects whose nested objects have none in them, and  *)
(* without line breaks.  Members come by type; null is not there.          *)

Separated(seqs) ==
    FlattenSeq([n \in DOMAIN seqs |-> IF n = 1 THEN seqs[n] ELSE <<Sign(",")>> \o seqs[n]])
Braced(members) == <<Sign("{")>> \o Separated(members) \o <<Sign("}")>>
Member(name, value) == <<Word("s", name), Sign(":")>> \o value

OfType(data, type) == SetToSeq({k \in DOMAIN data : k[1] = type})
Shown(data, key) ==
    CASE key[1] = "s" -> data[key]
      [] key[1] = "f" -> <<Stream(data[key])>>
      [] OTHER        -> <<Word(key[1], data[key])>>
Scalars(data) ==
    FlattenSeq([n \in 1..4 |->
      LET keys == OfType(data, <<"s", "i", "f", "b">>[n]) IN
      [m \in DOMAIN keys |-> Member(keys[m][2], Shown(data, keys[m]))]])
BugMarshal(data) ==
    LET keys == OfType(data, "o") IN
    Braced([m \in DOMAIN keys |-> Member(keys[m][2], Braced(Scalars(data[keys[m]])))]
             \o Scalars(data))
Marshal(data) ==
    LET keys == OfType(data, "o") IN
    Braced(Scalars(data) \o
      [m \in DOMAIN keys |-> Member(keys[m][2], Braced(Scalars(data[keys[m]])))])

(* What marshal wrote is parsed again; the first result stays in json      *)
(* until the second is there.  A string that was collected from a sign or  *)
(* several tokens (it has a quote in it) is left out, and so is an object  *)
(* without members, and one in an object that is a member itself.          *)
Written(data) ==
    /\ DOMAIN data # {}
    /\ \A k \in DOMAIN data : k[1] = "s" => data[k] = <<Word("s", data[k][1][2])>>
Reparse ==
    /\ stage = "parsed" /\ Written(json)
    /\ \A k \in DOMAIN json :
         k[1] = "o" => Written(json[k]) /\ \A l \in DOMAIN json[k] : l[1] # "o"
    /\ text' = Marshal(json)
    /\ frames' = <<Frame(1)>>
    /\ stage' = "reparse"
    /\ UNCHANGED json

-----------------------------------------------------------------------------
(* get_o and the others.  "f.g" is the path <<"f", "g">>; with objects      *)
(* whose nested objects have none in them, no longer path leads anywhere.  *)

Holders(data, path) ==
    IF Len(path) = 1 THEN {data}
    ELSE {data[key] : key \in {<<"o", path[1]>>} \cap DOMAIN data}

Get(data, type, path, def) ==
    LET key == <<type, path[Len(path)]>>
        holders == {o \in Holders(data, path) : key \in DOMAIN o}
    IN  IF holders = {} THEN def ELSE (CHOOSE o \in holders : TRUE)[key]

GetInz(data, path, def) ==
    LET value == Get(data, "i", path, 0) IN IF value = 0 THEN def ELSE value

ParseStep ==
    \/ SkipSpace \/ ReadColon \/ EnterOwn \/ CallNested \/ ReadComma \/ ReadBrace
    \/ EndOfText \/ Collect
=============================================================================
