--------------------------- MODULE ResNodeIO_proofs ---------------------------
(***************************************************************************)
(* The handle, the content and the status of a resource node stay right,   *)
(* for all contents, sizes of blocks and limits.  A call maps a state of   *)
(* the node to its outcomes, so there is one lemma per call: an outcome of *)
(* a good state is good.  The calls that are made of others follow from    *)
(* the lemmas of those; the invariant then follows action by action.       *)
(***************************************************************************)
EXTENDS ResNodeIO, TLAPS

(* The fields that a call reads or writes, and the contents and sizes.       *)
Typed(s) ==
  /\ DOMAIN s = {"k", "d", "n", "r", "w", "ok"}
  /\ s.w \in BOOLEAN
  /\ DOMAIN s.r = {"type", "access", "handle", "error", "stat", "exist", "read",
                   "size", "content", "sizeContent"}
  /\ s.d \in Content \cup {None}
  /\ s.r.content \in Content \cup {None}
  /\ s.r.size \in Nat /\ s.r.sizeContent \in Nat

(* The open streams are those of the handle, and a node that is accessed as  *)
(* a file or a connection has one.                                           *)
Owned(s) ==
  /\ s.n = IF s.r.handle = None THEN 0 ELSE 1
  /\ s.r.handle # None <=> s.r.access \in {"file", "curl"}

(* How the node is accessed fits what it is, only files are written, and the *)
(* file behind a handle is there: others change it only while none is open.  *)
Held(s) ==
  /\ s.k = "file" => s.r.access \in {"undef", "file"}
  /\ s.k = "url" => s.r.access \in {"undef", "curl"}
  /\ s.r.access = "file" => s.k = "file" /\ s.d # None
  /\ s.r.handle = "w" => s.r.access = "file"
  /\ s.r.handle \in {None, "r", "w"}
  /\ s.k = "std" => s.r.access = "std"

(* A content has the size that is kept with it.                              *)
Sized(x) == x.content # None => x.sizeContent = x.content.len

Good(s) == Typed(s) /\ Owned(s) /\ Held(s) /\ Sized(s.r)

(* The status that was read is that of the file, its size until the node has *)
(* written.                                                                  *)
Right(s) ==
  s.k = "file" /\ s.r.stat =>
    /\ s.r.exist = (s.d # None)
    /\ s.d # None /\ ~s.w => s.r.size = s.d.len

(* What an outcome u of a call is to the state s before it.                  *)
Sound(s, u) == Good(u) /\ u.k = s.k /\ (Right(s) => Right(u))

IInv ==
  /\ kind \in Kinds
  /\ Good(State)
  /\ DOMAIN memory = {"content", "sizeContent"} /\ Sized(memory)
  /\ memory.content \in Content \cup {None} /\ memory.sizeContent \in Nat
  /\ foreign \in BOOLEAN
  /\ StatusRight

-------------------------------------------------------------------------------
(* Contents *)

(* The contents a call makes of others are contents.                         *)
LEMMA ContentFacts ==
  /\ None \notin Content
  /\ Contents \subseteq Content
  /\ \A c \in Content : c.len \in Nat
  /\ \A c \in Content, l \in Nat : Cut(c, l) \in Content /\ Cut(c, l).len = l
  /\ \A c \in Content : Cut(c, c.len) = c
  /\ \A l \in Nat : [of |-> Garbage, len |-> l] \in Content
  /\ Empty \in Content /\ Empty # None /\ Empty.len = 0
BY ContentAssumption, NoneAssumption DEF Content, Cut, Empty

(* What is written after a content, or to a file that is gone, is one.       *)
LEMMA JoinedContent ==
  ASSUME NEW c \in Content \cup {None}, NEW e \in Content
  PROVE  Joined(c, e) \in Content
<1>1. CASE c = None \/ c.len = 0
  BY <1>1 DEF Joined
<1>2. CASE c # None /\ c.len # 0
  <2>1. c.len + e.len \in Nat
    BY <1>2, ContentFacts
  <2> QED
    BY <1>2, <2>1, ContentFacts DEF Joined
<1> QED BY <1>1, <1>2

(* Soundness goes from call to call.                                         *)
LEMMA SoundTrans ==
  ASSUME NEW s, NEW t, NEW u, Sound(s, t), Sound(t, u)
  PROVE  Sound(s, u)
BY DEF Sound

(* What soundness says of the fields an outcome changes.                     *)
LEMMA SoundFields ==
  ASSUME NEW s, Good(s), NEW u,
         DOMAIN u = DOMAIN s, DOMAIN u.r = DOMAIN s.r, u.k = s.k, u.n = s.n, u.d = s.d, u.w \in BOOLEAN,
         u.r.access = s.r.access, u.r.handle = s.r.handle,
         u.r.content = s.r.content, u.r.sizeContent = s.r.sizeContent,
         u.r.size \in Nat,
         Right(s) => Right(u)
  PROVE  Sound(s, u)
BY DEF Good, Sound, Typed, Owned, Held, Sized

(* The result of a call and its error say nothing of the node.               *)
LEMMA ResultSound ==
  ASSUME NEW s, Good(s)
  PROVE  /\ Sound(s, s)
         /\ Sound(s, ResetError(s))
         /\ \A ok : Sound(s, Returns(s, ok))
         /\ \A error : Sound(s, Fails(s, error))
<1>1. Sound(s, s)
  BY DEF Sound
<1>2. Sound(s, ResetError(s))
  <2> DEFINE u == ResetError(s)
  <2>1. /\ DOMAIN u = DOMAIN s /\ u.k = s.k /\ u.d = s.d /\ u.n = s.n /\ u.w = s.w
        /\ u.r = [s.r EXCEPT !.error = "none"]
    BY DEF Good, Typed, ResetError
  <2>2. QED
    BY <2>1, SoundFields DEF Good, Typed, Right
<1>3. ASSUME NEW ok
      PROVE  Sound(s, Returns(s, ok))
  BY SoundFields DEF Good, Typed, Right, Returns
<1>4. ASSUME NEW error
      PROVE  Sound(s, Fails(s, error))
  <2> DEFINE u == Fails(s, error)
  <2>1. /\ DOMAIN u = DOMAIN s /\ u.k = s.k /\ u.d = s.d /\ u.n = s.n /\ u.w = s.w
        /\ u.r = [s.r EXCEPT !.error = error]
    BY DEF Good, Typed, Fails
  <2>2. QED
    BY <2>1, SoundFields DEF Good, Typed, Right
<1> QED BY <1>1, <1>2, <1>3, <1>4

-------------------------------------------------------------------------------
(* Reading the status *)

(* The status of a file or a directory is right when it was read.            *)
LEMMA StatSound ==
  ASSUME NEW s, Good(s)
  PROVE  Sound(s, Stat(s))
<1> DEFINE u == Stat(s)
<1>1. CASE s.k = "dir"
  <2>1. /\ DOMAIN u = DOMAIN s /\ u.k = s.k /\ u.d = s.d /\ u.n = s.n /\ u.w = FALSE
        /\ u.r = [s.r EXCEPT !.stat = TRUE, !.exist = TRUE, !.read = TRUE]
    BY <1>1 DEF Good, Typed, Stat, Returns
  <2> QED
    BY <1>1, <2>1, SoundFields DEF Good, Typed, Right
<1>2. CASE s.k # "dir" /\ s.d = None
  <2>1. /\ DOMAIN u = DOMAIN s /\ u.k = s.k /\ u.d = s.d /\ u.n = s.n /\ u.w = FALSE
        /\ u.r = [s.r EXCEPT !.stat = TRUE, !.error = "stat", !.exist = FALSE]
    BY <1>2 DEF Good, Typed, Stat, Fails
  <2> QED
    BY <1>2, <2>1, SoundFields DEF Good, Typed, Right
<1>3. CASE s.k # "dir" /\ s.d # None
  <2>1. /\ DOMAIN u = DOMAIN s /\ u.k = s.k /\ u.d = s.d /\ u.n = s.n /\ u.w = FALSE
        /\ u.r = [s.r EXCEPT !.stat = TRUE, !.exist = TRUE, !.read = TRUE, !.size = s.d.len]
    BY <1>3 DEF Good, Typed, Stat, Returns
  <2> HIDE DEF u
  <2>2. /\ DOMAIN u.r = DOMAIN s.r /\ u.r.access = s.r.access /\ u.r.handle = s.r.handle
        /\ u.r.content = s.r.content /\ u.r.sizeContent = s.r.sizeContent
        /\ u.r.size = s.d.len /\ u.r.exist = TRUE
    BY <2>1 DEF Good, Typed
  <2>3. u.r.size \in Nat
    BY <1>3, <2>2, ContentFacts DEF Good, Typed
  <2>4. Right(u)
    BY <1>3, <2>1, <2>2 DEF Right
  <2>5. Sound(s, u)
    BY <2>1, <2>2, <2>3, <2>4, SoundFields
  <2> QED BY <2>5 DEF u
<1> QED BY <1>1, <1>2, <1>3

(* A connection is opened only by a node that has none.                      *)
LEMMA OpenURLSound ==
  ASSUME NEW s, Good(s), s.k = "url", ~IsOpen(s), NEW mode \in {"r", "w"}, NEW u \in OpenURL(s, mode)
  PROVE  Sound(s, u) /\ u.d = s.d /\ u.r.content = s.r.content
<1>1. s.r.handle = None
  BY DEF Good, Owned, IsOpen
<1>2. CASE u = Fails(s, "open")
  BY <1>2, ResultSound DEF Fails, Good, Typed
<1>3. CASE u = [Fails(s, "open") EXCEPT !.r.access = "undef"]
  <2>1. /\ DOMAIN u = DOMAIN s /\ u.k = s.k /\ u.d = s.d /\ u.n = s.n /\ u.w = s.w
        /\ u.r = [s.r EXCEPT !.error = "open", !.access = "undef"]
    BY <1>3 DEF Good, Typed, Fails
  <2> QED
    BY <1>1, <2>1 DEF Sound, Good, Typed, Owned, Held, Sized, Right
<1>4. CASE u = [Returns(s, TRUE) EXCEPT !.r.access = "curl", !.r.handle = "r", !.n = @ + 1, !.r.exist = TRUE]
  <2>1. /\ DOMAIN u = DOMAIN s /\ u.k = s.k /\ u.d = s.d /\ u.n = s.n + 1 /\ u.w = s.w
        /\ u.r = [s.r EXCEPT !.access = "curl", !.handle = "r", !.exist = TRUE]
    BY <1>4 DEF Good, Typed, Returns
  <2> QED
    BY <1>1, <2>1, NoneAssumption DEF Sound, Good, Typed, Owned, Held, Sized, Right
<1> QED BY <1>2, <1>3, <1>4 DEF OpenURL

(* The status of a URL is read through a connection, which stays open.       *)
LEMMA ReadStatusUrlSound ==
  ASSUME NEW s, Good(s), s.k = "url", NEW u \in ReadStatusUrl(s)
  PROVE  Sound(s, u) /\ u.d = s.d /\ u.r.content = s.r.content
<1>1. CASE s.r.content # None
  <2>1. u = [Returns(s, TRUE) EXCEPT !.r.stat = TRUE, !.r.size = s.r.sizeContent, !.r.read = TRUE, !.r.exist = TRUE]
    BY <1>1 DEF ReadStatusUrl
  <2>2. /\ DOMAIN u = DOMAIN s /\ u.k = s.k /\ u.d = s.d /\ u.n = s.n /\ u.w = s.w
        /\ u.r = [s.r EXCEPT !.stat = TRUE, !.size = s.r.sizeContent, !.read = TRUE, !.exist = TRUE]
    BY <2>1 DEF Good, Typed, Returns
  <2> QED
    BY <2>2, SoundFields DEF Good, Typed, Right
<1>2. CASE s.r.content = None
  <2> DEFINE connected(t) == [t EXCEPT !.r.stat = TRUE, !.r.read = TRUE, !.r.exist = TRUE, !.ok = TRUE]
             lost(t) == [t EXCEPT !.r.stat = TRUE, !.r.read = FALSE, !.r.exist = FALSE, !.ok = FALSE]
             t0 == [s EXCEPT !.r.size = 0, !.r.read = TRUE]
             opened == IF IsOpen(t0) THEN {Returns(t0, TRUE)} ELSE OpenURL(t0, "r")
  <2>1. PICK t \in opened :
          u \in IF ~t.ok THEN {[t EXCEPT !.r.stat = TRUE, !.ok = t.r.exist]}
                ELSE {lost(t)} \cup (IF t.d = None THEN {} ELSE {connected(t)})
    BY <1>2 DEF ReadStatusUrl
  <2>2. Sound(s, t0) /\ t0.d = s.d /\ t0.r.content = s.r.content
    <3>1. /\ DOMAIN t0 = DOMAIN s /\ t0.k = s.k /\ t0.d = s.d /\ t0.n = s.n /\ t0.w = s.w
          /\ t0.r = [s.r EXCEPT !.size = 0, !.read = TRUE]
      BY DEF Good, Typed
    <3> QED
      BY <3>1, SoundFields DEF Good, Typed, Right
  <2> HIDE DEF t0
  <2>3. Sound(t0, t) /\ t.d = t0.d /\ t.r.content = t0.r.content
    <3>1. CASE IsOpen(t0)
      <4>1. t = Returns(t0, TRUE)
        BY <3>1
      <4> QED
        BY <2>2, <4>1, ResultSound DEF Returns, Sound, Good, Typed
    <3>2. CASE ~IsOpen(t0)
      <4>1. t \in OpenURL(t0, "r")
        BY <3>2
      <4> QED
        BY <2>2, <3>2, <4>1, OpenURLSound DEF Sound
    <3> QED BY <3>1, <3>2
  <2>4. Sound(t, u) /\ u.d = t.d /\ u.r.content = t.r.content
    <3>1. Good(t) /\ t.k = "url"
      BY <2>2, <2>3 DEF Sound
    <3>2. CASE u = [t EXCEPT !.r.stat = TRUE, !.ok = t.r.exist]
      <4>1. /\ DOMAIN u = DOMAIN t /\ u.k = t.k /\ u.d = t.d /\ u.n = t.n /\ u.w = t.w
            /\ u.r = [t.r EXCEPT !.stat = TRUE]
        BY <3>1, <3>2 DEF Good, Typed
      <4> QED
        BY <3>1, <4>1, SoundFields DEF Good, Typed, Right
    <3>3. CASE u = lost(t)
      <4>1. /\ DOMAIN u = DOMAIN t /\ u.k = t.k /\ u.d = t.d /\ u.n = t.n /\ u.w = t.w
            /\ u.r = [t.r EXCEPT !.stat = TRUE, !.read = FALSE, !.exist = FALSE]
        BY <3>1, <3>3 DEF Good, Typed
      <4> QED
        BY <3>1, <4>1, SoundFields DEF Good, Typed, Right
    <3>4. CASE u = connected(t)
      <4>1. /\ DOMAIN u = DOMAIN t /\ u.k = t.k /\ u.d = t.d /\ u.n = t.n /\ u.w = t.w
            /\ u.r = [t.r EXCEPT !.stat = TRUE, !.read = TRUE, !.exist = TRUE]
        BY <3>1, <3>4 DEF Good, Typed
      <4> QED
        BY <3>1, <4>1, SoundFields DEF Good, Typed, Right
    <3> QED BY <2>1, <3>2, <3>3, <3>4
  <2> QED
    BY <2>2, <2>3, <2>4, SoundTrans
<1> QED BY <1>1, <1>2

(* Reading the status changes neither the resource nor the content.          *)
LEMMA ReadStatusSound ==
  ASSUME NEW s, Good(s), NEW u \in ReadStatus(s)
  PROVE  Sound(s, u) /\ u.d = s.d /\ u.r.content = s.r.content
<1> DEFINE t == ResetError(s)
<1>1. Sound(s, t) /\ Good(t) /\ t.d = s.d /\ t.r.content = s.r.content
  BY ResultSound DEF Sound, ResetError, Good, Typed
<1> HIDE DEF t
<1>2. Sound(t, u) /\ u.d = t.d /\ u.r.content = t.r.content
  <2>1. \A ok : Sound(t, Returns(t, ok)) /\ Returns(t, ok).d = t.d /\ Returns(t, ok).r.content = t.r.content
    BY <1>1, ResultSound DEF Returns, Good, Typed
  <2>2. CASE t.r.stat
    <3>1. u = Returns(t, t.r.exist)
      BY <2>2 DEF ReadStatus, t
    <3> QED BY <2>1, <3>1
  <2>3. CASE ~t.r.stat /\ t.r.size > 0 /\ t.r.content # None
    <3>1. u = Returns(t, TRUE)
      BY <2>3 DEF ReadStatus, t
    <3> QED BY <2>1, <3>1
  <2>4. CASE ~t.r.stat /\ ~(t.r.size > 0 /\ t.r.content # None) /\ t.k = "std"
    <3>1. u = Returns([t EXCEPT !.r.read = (t.r.type = "stdin")], TRUE)
      BY <2>4 DEF ReadStatus, t
    <3>2. /\ DOMAIN u = DOMAIN t /\ u.k = t.k /\ u.d = t.d /\ u.n = t.n /\ u.w = t.w
          /\ u.r = [t.r EXCEPT !.read = (t.r.type = "stdin")]
      BY <1>1, <3>1 DEF Good, Typed, Returns
    <3> QED
      BY <1>1, <2>4, <3>2, SoundFields DEF Good, Typed, Right
  <2>5. CASE ~t.r.stat /\ ~(t.r.size > 0 /\ t.r.content # None) /\ t.k = "url"
    <3>1. u \in ReadStatusUrl(t)
      BY <2>5 DEF ReadStatus, t
    <3> QED BY <1>1, <2>5, <3>1, ReadStatusUrlSound
  <2>6. CASE ~t.r.stat /\ ~(t.r.size > 0 /\ t.r.content # None) /\ t.k \notin {"std", "url"}
    <3>1. u = Stat(t)
      BY <2>6 DEF ReadStatus, t
    <3>2. u.d = t.d /\ u.r.content = t.r.content
      BY <1>1, <3>1 DEF Stat, Returns, Fails, Good, Typed
    <3> QED BY <1>1, <3>1, <3>2, StatSound
  <2> QED BY <2>2, <2>3, <2>4, <2>5, <2>6
<1> QED BY <1>1, <1>2, SoundTrans

-------------------------------------------------------------------------------
(* Opening and closing *)

(* A file is opened by a node that has no handle; one that is opened for     *)
(* writing is there, and empty.                                              *)
LEMMA OpenedSound ==
  ASSUME NEW s, Good(s), s.k = "file", ~IsOpen(s), NEW mode \in {"r", "w"}, NEW u \in Opened(s, mode)
  PROVE  Sound(s, u) /\ u.r.content = s.r.content /\ (mode = "r" => u.d = s.d)
<1> DEFINE open == [Returns(s, TRUE) EXCEPT !.n = @ + 1, !.r.access = "file", !.r.handle = mode,
                      !.r.read = TRUE, !.r.exist = TRUE]
<1>1. s.r.handle = None /\ s.n = 0 /\ mode # None
  BY NoneAssumption DEF Good, Owned, IsOpen
<1>2. CASE u = Fails(s, "open") \/ u = Returns(s, FALSE)
  <2>1. CASE u = Fails(s, "open")
    BY <2>1, ResultSound DEF Fails, Good, Typed
  <2>2. CASE u = Returns(s, FALSE)
    BY <2>2, ResultSound DEF Returns, Good, Typed
  <2> QED BY <1>2, <2>1, <2>2
<1>3. CASE mode = "w" /\ u = [open EXCEPT !.d = Empty, !.w = TRUE]
  <2>1. /\ DOMAIN u = DOMAIN s /\ u.k = s.k /\ u.d = Empty /\ u.n = s.n + 1 /\ u.w = TRUE
        /\ u.r = [s.r EXCEPT !.access = "file", !.handle = mode, !.read = TRUE, !.exist = TRUE]
    BY <1>3 DEF Good, Typed, Returns
  <2>2. u.d \in Content /\ u.d # None
    BY <2>1, ContentFacts
  <2> HIDE DEF open
  <2>3. Good(u)
    <3>1. Typed(u) /\ Sized(u.r)
      BY <2>1, <2>2 DEF Good, Typed, Sized
    <3>2. u.r.access = "file" /\ u.r.handle = mode
      BY <2>1 DEF Good, Typed
    <3>3. Owned(u) /\ Held(u)
      BY <1>1, <2>1, <2>2, <3>2 DEF Owned, Held
    <3> QED BY <3>1, <3>3 DEF Good
  <2>4. Right(u)
    BY <2>1, <2>2 DEF Good, Typed, Right
  <2> QED
    BY <1>3, <2>1, <2>3, <2>4 DEF Sound, Good, Typed
<1>4. CASE mode = "r" /\ s.d # None /\ u = open
  <2>1. /\ DOMAIN u = DOMAIN s /\ u.k = s.k /\ u.d = s.d /\ u.n = s.n + 1 /\ u.w = s.w
        /\ u.r = [s.r EXCEPT !.access = "file", !.handle = mode, !.read = TRUE, !.exist = TRUE]
    BY <1>4 DEF Good, Typed, Returns
  <2> HIDE DEF open
  <2>2. Good(u)
    BY <1>1, <1>4, <2>1 DEF Good, Typed, Owned, Held, Sized
  <2>3. Right(s) => Right(u)
    BY <1>4, <2>1 DEF Good, Typed, Right
  <2> QED
    BY <1>4, <2>1, <2>2, <2>3 DEF Sound, Good, Typed
<1> QED BY <1>2, <1>3, <1>4 DEF Opened

(* A node that is open is not opened again.                                  *)
LEMMA OpenSound ==
  ASSUME NEW s, Good(s), s.k \in Kinds, NEW mode \in {"r", "w"}, NEW u \in Open(s, mode)
  PROVE  Sound(s, u) /\ u.r.content = s.r.content /\ (mode = "r" => u.d = s.d)
<1> DEFINE t == ResetError(s)
<1>1. Sound(s, t) /\ Good(t) /\ t.d = s.d /\ t.r.content = s.r.content /\ t.k = s.k
  BY ResultSound DEF Sound, ResetError, Good, Typed
<1> HIDE DEF t
<1>2. Sound(t, u) /\ u.r.content = t.r.content /\ (mode = "r" => u.d = t.d)
  <2>1. CASE IsOpen(t)
    <3>1. u = Returns(t, TRUE)
      BY <2>1 DEF Open, t
    <3> QED
      BY <1>1, <3>1, ResultSound DEF Returns, Good, Typed
  <2>2. CASE ~IsOpen(t) /\ t.k = "std"
    <3>1. u = Returns([t EXCEPT !.r.access = "std", !.r.exist = TRUE,
                         !.r.type = IF mode = "w" THEN "stdout" ELSE "stdin",
                         !.r.read = (mode = "r")], TRUE)
      BY <2>2 DEF Open, t
    <3>2. /\ DOMAIN u = DOMAIN t /\ u.k = t.k /\ u.d = t.d /\ u.n = t.n /\ u.w = t.w
          /\ u.r = [t.r EXCEPT !.access = "std", !.exist = TRUE,
                      !.type = IF mode = "w" THEN "stdout" ELSE "stdin", !.read = (mode = "r")]
      BY <1>1, <3>1 DEF Good, Typed, Returns
    <3>3. t.r.handle = None
      BY <1>1, <2>2 DEF Good, Owned, IsOpen
    <3> QED
      BY <1>1, <2>2, <3>2, <3>3 DEF Sound, Good, Typed, Owned, Held, Sized, Right
  <2>3. CASE ~IsOpen(t) /\ t.k = "dir"
    <3>1. u = Returns([t EXCEPT !.r.access = "dir"], TRUE)
      BY <2>3 DEF Open, t
    <3>2. /\ DOMAIN u = DOMAIN t /\ u.k = t.k /\ u.d = t.d /\ u.n = t.n /\ u.w = t.w
          /\ u.r = [t.r EXCEPT !.access = "dir"]
      BY <1>1, <3>1 DEF Good, Typed, Returns
    <3>3. t.r.handle = None
      BY <1>1, <2>3 DEF Good, Owned, IsOpen
    <3> QED
      BY <1>1, <2>3, <3>2, <3>3 DEF Sound, Good, Typed, Owned, Held, Sized, Right
  <2>4. CASE ~IsOpen(t) /\ t.k = "url"
    <3>1. PICK v \in OpenURL(t, mode) : u = IF v.ok THEN [v EXCEPT !.r.read = TRUE] ELSE v
      BY <2>4 DEF Open, t
    <3>2. Sound(t, v) /\ v.d = t.d /\ v.r.content = t.r.content
      BY <1>1, <2>4, OpenURLSound
    <3>3. CASE ~v.ok
      BY <3>1, <3>2, <3>3
    <3>4. CASE v.ok
      <4>1. Good(v) /\ v.k = "url"
        BY <2>4, <3>2 DEF Sound
      <4>2. /\ DOMAIN u = DOMAIN v /\ u.k = v.k /\ u.d = v.d /\ u.n = v.n /\ u.w = v.w
            /\ u.r = [v.r EXCEPT !.read = TRUE]
        BY <3>1, <3>4, <4>1 DEF Good, Typed
      <4>3. Sound(v, u) /\ u.r.content = v.r.content
        BY <4>1, <4>2, SoundFields DEF Good, Typed, Right
      <4> QED
        BY <3>2, <4>2, <4>3, SoundTrans
    <3> QED BY <3>3, <3>4
  <2>5. CASE ~IsOpen(t) /\ t.k = "file"
    <3>1. u \in Opened(t, mode)
      BY <2>5 DEF Open, t
    <3> QED BY <1>1, <2>5, <3>1, OpenedSound
  <2> QED BY <1>1, <2>1, <2>2, <2>3, <2>4, <2>5, KindAssumption
<1> QED BY <1>1, <1>2, SoundTrans

(* Closing gives the stream back; what is left of the buffer may be lost,    *)
(* but the file is there.                                                    *)
LEMMA CloseSound ==
  ASSUME NEW s, Good(s), NEW u \in Close(s)
  PROVE  Sound(s, u) /\ u.r.content = s.r.content /\ u.r.error = s.r.error
<1> DEFINE t == [s EXCEPT !.r.handle = None, !.r.access = "undef", !.n = @ - 1]
<1>1. CASE ~IsOpen(s)
  <2>1. u = Returns(s, FALSE)
    BY <1>1 DEF Close
  <2> QED BY <2>1, ResultSound DEF Returns, Good, Typed
<1>2. CASE IsOpen(s)
  <2>1. s.r.handle # None /\ s.n = 1
    BY <1>2 DEF IsOpen, Good, Owned
  <2>2. CASE u = Returns(t, TRUE)
    <3>1. /\ DOMAIN u = DOMAIN s /\ u.k = s.k /\ u.d = s.d /\ u.n = s.n - 1 /\ u.w = s.w
          /\ u.r = [s.r EXCEPT !.handle = None, !.access = "undef"]
      BY <2>2 DEF Good, Typed, Returns
    <3> QED
      BY <2>1, <3>1, NoneAssumption DEF Sound, Good, Typed, Owned, Held, Sized, Right
  <2>3. ASSUME NEW len \in 0..s.d.len, u = [Returns(t, FALSE) EXCEPT !.d = Cut(@, len), !.w = TRUE], s.r.handle = "w"
        PROVE  Sound(s, u) /\ u.r.content = s.r.content /\ u.r.error = s.r.error
    <3>1. /\ DOMAIN u = DOMAIN s /\ u.k = s.k /\ u.d = Cut(s.d, len) /\ u.n = s.n - 1 /\ u.w = TRUE
          /\ u.r = [s.r EXCEPT !.handle = None, !.access = "undef"]
      BY <2>3 DEF Good, Typed, Returns
    <3>2. s.d \in Content /\ s.d # None
      BY <2>3 DEF Good, Typed, Held
    <3>3. u.d \in Content /\ u.d # None
      BY <3>1, <3>2, ContentFacts
    <3> HIDE DEF t
    <3>4. /\ DOMAIN u.r = DOMAIN s.r /\ u.r.access = "undef" /\ u.r.handle = None /\ u.r.error = s.r.error
          /\ u.r.content = s.r.content /\ u.r.sizeContent = s.r.sizeContent /\ u.r.size = s.r.size
          /\ u.r.stat = s.r.stat /\ u.r.exist = s.r.exist
      BY <3>1 DEF Good, Typed
    <3>5. s.k = "file"
      BY <2>3 DEF Good, Held
    <3>6. Good(u)
      <4>1. Typed(u)
        BY <3>1, <3>3, <3>4 DEF Good, Typed
      <4>2. Owned(u)
        BY <2>1, <3>1, <3>4 DEF Good, Owned
      <4>3. Held(u) /\ Sized(u.r)
        BY <3>1, <3>4, <3>5, NoneAssumption DEF Good, Held, Sized
      <4> QED BY <4>1, <4>2, <4>3 DEF Good
    <3>7. Right(s) => Right(u)
      BY <3>1, <3>2, <3>3, <3>4 DEF Right
    <3> QED
      BY <3>1, <3>4, <3>6, <3>7 DEF Sound
  <2> QED BY <1>2, <2>2, <2>3 DEF Close
<1> QED BY <1>1, <1>2

-------------------------------------------------------------------------------
(* Reading contents *)

(* Setting a content sets its size, too.                                     *)
LEMMA SetContentSound ==
  ASSUME NEW s, Good(s), NEW c \in Content \cup {None}
  PROVE  /\ Sound(s, SetContent(s, c))
         /\ SetContent(s, c).r.content = c /\ SetContent(s, c).r.error = s.r.error
         /\ SetContent(s, c).d = s.d
<1> DEFINE u == SetContent(s, c)
<1>1. /\ DOMAIN u = DOMAIN s /\ u.k = s.k /\ u.d = s.d /\ u.n = s.n /\ u.w = s.w
      /\ u.r = [s.r EXCEPT !.content = c, !.sizeContent = IF c = None THEN 0 ELSE c.len]
  BY DEF Good, Typed, SetContent
<1> HIDE DEF u
<1>2. /\ u.r.access = s.r.access /\ u.r.handle = s.r.handle /\ u.r.content = c
      /\ u.r.sizeContent = (IF c = None THEN 0 ELSE c.len) /\ u.r.size = s.r.size
      /\ u.r.error = s.r.error /\ u.r.stat = s.r.stat /\ u.r.exist = s.r.exist
      /\ DOMAIN u.r = DOMAIN s.r
  BY <1>1 DEF Good, Typed
<1>3. u.r.sizeContent \in Nat
  BY <1>2, ContentFacts
<1>4. Good(u)
  BY <1>1, <1>2, <1>3 DEF Good, Typed, Owned, Held, Sized
<1>5. Right(s) => Right(u)
  BY <1>1, <1>2 DEF Right
<1> QED BY <1>1, <1>2, <1>4, <1>5 DEF Sound, u

(* The loop over the blocks makes a content, the whole one if it leaves no   *)
(* error.                                                                    *)
LEMMA ReadBlocksWhole ==
  ASSUME NEW c \in Content, NEW max \in Nat, NEW x \in ReadBlocks(c, max)
  PROVE  x.c \in Content \cup {None} /\ (x.e = "none" => x.c = c)
<1>1. \A k \in Nat : k * BlockSize \in Nat
  BY SizeAssumption
<1>2. \A k \in Nat : Cut(c, k * BlockSize) \in Content
  BY <1>1, ContentFacts
<1>3. CASE x = [c |-> c, e |-> "none"]
  BY <1>3
<1>4. CASE x = [c |-> Cut(c, max * BlockSize), e |-> "memory"]
  BY <1>2, <1>4
<1>5. ASSUME NEW k \in Nat, x = [c |-> IF k = 0 THEN None ELSE Cut(c, k * BlockSize), e |-> "read"]
      PROVE  x.c \in Content \cup {None} /\ (x.e = "none" => x.c = c)
  <2>1. x.e = "read" /\ x.c = IF k = 0 THEN None ELSE Cut(c, k * BlockSize)
    BY <1>5
  <2> QED BY <1>2, <2>1
<1>6. \/ x = [c |-> c, e |-> "none"]
      \/ x = [c |-> Cut(c, max * BlockSize), e |-> "memory"]
      \/ \E k \in Nat : x = [c |-> IF k = 0 THEN None ELSE Cut(c, k * BlockSize), e |-> "read"]
  BY DEF ReadBlocks
<1> QED BY <1>3, <1>4, <1>5, <1>6

(* A transfer makes a content, the whole one if it leaves no error.          *)
LEMMA TransferredWhole ==
  ASSUME NEW c \in Content, NEW x \in Transferred(c)
  PROVE  x.c \in Content \cup {None} /\ (x.e = "none" /\ x.c # None => x.c = c)
<1>1. CASE x = [c |-> None, e |-> "memory"]
  BY <1>1
<1>2. ASSUME NEW len \in 0..c.len,
             x = [c |-> IF len = 0 THEN None ELSE Cut(c, len), e |-> IF len = c.len THEN "none" ELSE "memory"]
      PROVE  x.c \in Content \cup {None} /\ (x.e = "none" /\ x.c # None => x.c = c)
  <2>1. len \in Nat /\ Cut(c, len) \in Content /\ Cut(c, c.len) = c
    BY ContentFacts
  <2>2. x.e = (IF len = c.len THEN "none" ELSE "memory") /\ x.c = IF len = 0 THEN None ELSE Cut(c, len)
    BY <1>2
  <2>3. x.e = "none" => len = c.len
    BY <2>2
  <2> QED BY <2>1, <2>2, <2>3
<1> QED BY <1>1, <1>2 DEF Transferred

(* What was read without an error is the resource as it is then.             *)
LEMMA ReadContentSound ==
  ASSUME NEW s, Good(s), NEW max \in Nat, NEW u \in ReadContent(s, max)
  PROVE  /\ Sound(s, u)
         /\ u.r.content # None /\ u.r.error = "none" /\ s.d # None => u.r.content = s.d
<1> DEFINE t == SetContent(ResetError(s), None)
           readable == IF t.d = None THEN Empty ELSE t.d
           part(x) == [SetContent(t, x.c) EXCEPT !.r.error = x.e]
           result(x) == Returns(IF t.k = "std" THEN [part(x) EXCEPT !.d = Empty] ELSE part(x), x.c # None)
<1>1. /\ Sound(s, t) /\ Good(t) /\ t.d = s.d /\ t.r.content = None
      /\ readable \in Content /\ (s.d # None => readable = s.d)
  <2>1. Sound(s, ResetError(s)) /\ ResetError(s).d = s.d
    BY ResultSound DEF ResetError, Good, Typed
  <2>2. Good(ResetError(s))
    BY <2>1 DEF Sound
  <2>3. /\ Sound(ResetError(s), t) /\ t.r.content = None /\ t.d = s.d
    BY <2>1, <2>2, SetContentSound
  <2>4. Sound(s, t) /\ Good(t)
    BY <2>1, <2>3, SoundTrans DEF Sound
  <2>5. t.d \in Content \cup {None}
    BY <2>4 DEF Good, Typed
  <2> QED BY <2>3, <2>4, <2>5, ContentFacts
<1>2. CASE t.k = "dir"
  <2>1. u = Fails(t, "undef")
    BY <1>2 DEF ReadContent
  <2> HIDE DEF t
  <2>2. Sound(t, u) /\ u.r.content = t.r.content
    BY <1>1, <2>1, ResultSound DEF Fails, Good, Typed
  <2> QED
    BY <1>1, <2>2, SoundTrans
<1>3. CASE t.k # "dir"
  <2>1. PICK x \in (IF t.k = "url" THEN Transferred(readable) ELSE ReadBlocks(readable, max)) : u = result(x)
    BY <1>3 DEF ReadContent
  <2>2. x.c \in Content \cup {None} /\ (x.e = "none" /\ x.c # None => x.c = readable)
    BY <1>1, <2>1, ReadBlocksWhole, TransferredWhole
  <2> DEFINE v == SetContent(t, x.c)
  <2> HIDE DEF t, readable
  <2>3. Sound(t, v) /\ Good(v) /\ v.r.content = x.c /\ v.k = t.k
    BY <1>1, <2>2, SetContentSound DEF Sound
  <2> HIDE DEF v
  <2>4. /\ DOMAIN u = DOMAIN v /\ u.k = v.k /\ u.n = v.n /\ u.w = v.w
        /\ u.d = (IF t.k = "std" THEN Empty ELSE v.d)
        /\ u.r = [v.r EXCEPT !.error = x.e]
    <3>1. u = Returns(IF t.k = "std" THEN [[v EXCEPT !.r.error = x.e] EXCEPT !.d = Empty]
                      ELSE [v EXCEPT !.r.error = x.e], x.c # None)
      BY <2>1 DEF v
    <3>2. CASE t.k = "std"
      BY <2>3, <3>1, <3>2 DEF Good, Typed, Returns
    <3>3. CASE t.k # "std"
      BY <2>3, <3>1, <3>3 DEF Good, Typed, Returns
    <3> QED BY <3>2, <3>3
  <2>5. /\ DOMAIN u.r = DOMAIN v.r /\ u.r.access = v.r.access /\ u.r.handle = v.r.handle
        /\ u.r.content = v.r.content /\ u.r.sizeContent = v.r.sizeContent /\ u.r.size = v.r.size
        /\ u.r.stat = v.r.stat /\ u.r.exist = v.r.exist /\ u.r.error = x.e
    BY <2>3, <2>4 DEF Good, Typed
  <2>6. Sound(v, u)
    <3>1. u.d \in Content \cup {None}
      BY <2>3, <2>4, ContentFacts DEF Good, Typed
    <3>2. t.k # "std" => u.d = v.d
      BY <2>4
    <3>3. v.r.access = "file" => t.k # "std"
      BY <2>3 DEF Good, Held
    <3>4. Good(u)
      BY <2>3, <2>4, <2>5, <3>1, <3>2, <3>3 DEF Good, Typed, Owned, Held, Sized
    <3>5. Right(v) => Right(u)
      BY <2>3, <2>4, <2>5, <3>2 DEF Right
    <3> QED
      BY <2>4, <3>4, <3>5 DEF Sound
  <2>7. Sound(s, u)
    BY <1>1, <2>3, <2>6, SoundTrans
  <2> QED
    BY <1>1, <2>2, <2>3, <2>5, <2>7
<1> QED BY <1>2, <1>3

(* Getting a content closes the node, and gets the whole resource or leaves  *)
(* an error.                                                                 *)
LEMMA GetContentSound ==
  ASSUME NEW s, Good(s), s.k \in Kinds, NEW max \in Nat, NEW u \in GetContent(s, max)
  PROVE  /\ Sound(s, u)
         /\ s.r.content = None /\ u.r.content # None /\ u.r.error = "none" /\ s.d # None => u.r.content = s.d
<1>1. CASE s.r.content # None
  <2>1. u = Returns(s, TRUE)
    BY <1>1 DEF GetContent
  <2> QED BY <1>1, <2>1, ResultSound
<1>2. CASE s.r.content = None
  <2> DEFINE opened == IF s.k = "file" /\ s.r.handle # None THEN {Returns(s, TRUE)} ELSE Open(s, "r")
             read == UNION {IF t.ok THEN ReadContent(t, max) ELSE {t} : t \in opened}
  <2>1. PICK v \in read : \E w \in Close(v) : u = Returns(w, v.ok)
    BY <1>2 DEF GetContent
  <2>2. PICK w \in Close(v) : u = Returns(w, v.ok)
    BY <2>1
  <2>3. PICK t \in opened : v \in IF t.ok THEN ReadContent(t, max) ELSE {t}
    BY <2>1
  <2>4. Sound(s, t) /\ t.r.content = None /\ t.d = s.d
    <3>1. CASE s.k = "file" /\ s.r.handle # None
      <4>1. t = Returns(s, TRUE)
        BY <3>1
      <4> QED
        BY <1>2, <4>1, ResultSound DEF Returns, Good, Typed
    <3>2. CASE ~(s.k = "file" /\ s.r.handle # None)
      <4>1. t \in Open(s, "r")
        BY <3>2
      <4> QED
        BY <1>2, <4>1, OpenSound
    <3> QED BY <3>1, <3>2
  <2>5. Good(t)
    BY <2>4 DEF Sound
  <2>6. /\ Sound(t, v) /\ Good(v)
        /\ v.r.content # None /\ v.r.error = "none" /\ t.d # None => v.r.content = t.d
    <3>1. CASE t.ok
      BY <2>3, <2>5, <3>1, ReadContentSound DEF Sound
    <3>2. CASE ~t.ok
      BY <2>3, <2>4, <2>5, <3>2, ResultSound
    <3> QED BY <3>1, <3>2
  <2>7. Sound(v, w) /\ Good(w) /\ w.r.content = v.r.content /\ w.r.error = v.r.error
    BY <2>2, <2>6, CloseSound DEF Sound
  <2>8. Sound(w, u) /\ u.r = w.r
    BY <2>2, <2>7, ResultSound DEF Returns, Good, Typed
  <2>9. Sound(s, u)
    <3>1. Sound(s, v)
      BY <2>4, <2>6, SoundTrans
    <3>2. Sound(s, w)
      BY <2>7, <3>1, SoundTrans
    <3> QED BY <2>8, <3>2, SoundTrans
  <2> QED
    BY <2>4, <2>6, <2>7, <2>8, <2>9
<1> QED BY <1>1, <1>2

(* Reading a document is reading the status and the content.                 *)
LEMMA ReadDocSound ==
  ASSUME NEW s, Good(s), s.k \in Kinds, NEW u \in ReadDoc(s)
  PROVE  Sound(s, u)
<1>1. PICK t \in (IF s.r.stat THEN {s} ELSE ReadStatus(s)) :
        u \in IF t.r.read THEN GetContent(t, MaxLoop) ELSE {Returns(t, FALSE)}
  BY DEF ReadDoc
<1>2. Sound(s, t)
  BY <1>1, ReadStatusSound, ResultSound
<1>3. Good(t) /\ t.k \in Kinds
  BY <1>2 DEF Sound
<1>4. Sound(t, u)
  <2>1. CASE t.r.read
    BY <1>1, <1>3, <2>1, GetContentSound, SizeAssumption
  <2>2. CASE ~t.r.read
    BY <1>1, <1>3, <2>2, ResultSound
  <2> QED BY <2>1, <2>2
<1> QED BY <1>2, <1>4, SoundTrans

-------------------------------------------------------------------------------
(* Writing contents *)

(* Writing leaves a file that is there.                                      *)
LEMMA WrittenSound ==
  ASSUME NEW s, Good(s), s.r.content # None, s.k = "file" => s.d # None, NEW u \in Written(s)
  PROVE  Sound(s, u)
<1> DEFINE error == IF s.r.access = "std" THEN "write" ELSE "open"
           failed(len) == Appended(Fails(s, error), Cut(Data(s), len))
<1>1. GetSize(s) \in Nat /\ Data(s) \in Content
  <2>1. GetSize(s) \in Nat /\ s.r.content \in Content
    BY DEF GetSize, Good, Typed
  <2> QED BY <2>1, ContentFacts DEF Data
<1>2. ASSUME NEW t, NEW c \in Content, DOMAIN t = DOMAIN s, t.k = s.k, t.n = s.n, t.d = c, t.w = TRUE,
             NEW e, t.r = s.r \/ t.r = [s.r EXCEPT !.error = e]
      PROVE  Sound(s, t)
  <2>1. /\ DOMAIN t.r = DOMAIN s.r /\ t.r.access = s.r.access /\ t.r.handle = s.r.handle
        /\ t.r.content = s.r.content /\ t.r.sizeContent = s.r.sizeContent /\ t.r.size = s.r.size
        /\ t.r.stat = s.r.stat /\ t.r.exist = s.r.exist
    <3>1. CASE t.r = s.r
      BY <3>1
    <3>2. CASE t.r = [s.r EXCEPT !.error = e]
      BY <3>2 DEF Good, Typed
    <3> QED BY <1>2, <3>1, <3>2
  <2>2. t.d # None
    BY <1>2, ContentFacts
  <2>3. Good(t)
    BY <1>2, <2>1, <2>2 DEF Good, Typed, Owned, Held, Sized
  <2>4. Right(s) => Right(t)
    BY <1>2, <2>1, <2>2 DEF Right
  <2> QED BY <1>2, <2>3, <2>4 DEF Sound
<1>3. CASE u = Fails(s, "open")
  BY <1>3, ResultSound
<1>4. ASSUME NEW len \in 0..GetSize(s), u = failed(len)
      PROVE  Sound(s, u)
  <2>1. Joined(s.d, Cut(Data(s), len)) \in Content
    <3>1. len \in Nat
      BY <1>1
    <3>2. Cut(Data(s), len) \in Content
      BY <1>1, <3>1, ContentFacts
    <3> QED
      BY <3>2, JoinedContent DEF Good, Typed
  <2>2. /\ DOMAIN u = DOMAIN s /\ u.k = s.k /\ u.n = s.n /\ u.d = Joined(s.d, Cut(Data(s), len))
        /\ u.w = TRUE /\ u.r = [s.r EXCEPT !.error = error]
    BY <1>4 DEF Good, Typed, Fails, Appended
  <2> HIDE DEF error
  <2> QED BY <1>2, <2>1, <2>2
<1>5. CASE u = Appended(Returns(s, s.r.error = "none"), Data(s))
  <2>1. Joined(s.d, Data(s)) \in Content
    BY <1>1, JoinedContent DEF Good, Typed
  <2>2. /\ DOMAIN u = DOMAIN s /\ u.k = s.k /\ u.n = s.n /\ u.d = Joined(s.d, Data(s))
        /\ u.w = TRUE /\ u.r = s.r
    BY <1>5 DEF Good, Typed, Returns, Appended
  <2> QED BY <1>2, <2>1, <2>2
<1>6. \/ u = Fails(s, "open")
      \/ \E len \in 0..GetSize(s) : u = failed(len)
      \/ u = Appended(Returns(s, s.r.error = "none"), Data(s))
  BY DEF Written
<1> QED BY <1>3, <1>4, <1>5, <1>6

(* Saving writes only to what is open for it.                                *)
LEMMA SaveContentSound ==
  ASSUME NEW s, Good(s), NEW u \in SaveContent(s)
  PROVE  Sound(s, u)
<1>1. CASE s.r.content = None \/ s.r.access \notin {"std", "file"}
  BY <1>1, ResultSound DEF SaveContent
<1>2. CASE s.r.content # None /\ s.r.access \in {"std", "file"}
  <2>1. PICK t \in (IF s.r.size = 0 THEN ReadStatus(s) ELSE {s}) : u \in Written(t)
    BY <1>2 DEF SaveContent
  <2>2. Sound(s, t) /\ t.d = s.d /\ t.r.content = s.r.content
    BY <2>1, ReadStatusSound, ResultSound
  <2>3. Good(t) /\ t.k = s.k
    BY <2>2 DEF Sound
  <2>4. t.k = "file" => t.d # None
    BY <1>2, <2>2, <2>3 DEF Good, Held
  <2>5. Sound(t, u)
    BY <1>2, <2>1, <2>2, <2>3, <2>4, WrittenSound
  <2> QED BY <2>2, <2>5, SoundTrans
<1> QED BY <1>1, <1>2

(* Putting a content: read the status, open, save and close.                 *)
LEMMA PutContentSound ==
  ASSUME NEW s, Good(s), s.k \in Kinds, NEW u \in PutContent(s)
  PROVE  Sound(s, u)
<1>1. CASE s.k = "std"
  BY <1>1, SaveContentSound DEF PutContent
<1>2. CASE s.k # "std"
  <2> DEFINE placed == UNION {{Returns(t, TRUE), Returns(t, FALSE)} : t \in ReadStatus(s)}
             opened == UNION {IF t.ok THEN Open(t, "w") ELSE {t} : t \in placed}
             saved == UNION {IF t.ok THEN SaveContent(t) ELSE {t} : t \in opened}
  <2>1. PICK z \in saved : u \in IF z.ok THEN Close(z) ELSE {z}
    BY <1>2 DEF PutContent
  <2>2. PICK y \in opened : z \in IF y.ok THEN SaveContent(y) ELSE {y}
    BY <2>1
  <2>3. PICK x \in placed : y \in IF x.ok THEN Open(x, "w") ELSE {x}
    BY <2>2
  <2>4. PICK w \in ReadStatus(s) : x \in {Returns(w, TRUE), Returns(w, FALSE)}
    BY <2>3
  <2> HIDE DEF placed, opened, saved
  <2>5. Sound(s, w) /\ Good(w)
    BY <2>4, ReadStatusSound DEF Sound
  <2>6. Sound(s, x) /\ Good(x) /\ x.k \in Kinds
    <3>1. Sound(w, x)
      BY <2>4, <2>5, ResultSound
    <3> QED BY <2>5, <3>1, SoundTrans DEF Sound
  <2>7. Sound(s, y) /\ Good(y)
    <3>1. Sound(x, y)
      BY <2>3, <2>6, OpenSound, ResultSound
    <3> QED BY <2>6, <3>1, SoundTrans DEF Sound
  <2>8. Sound(s, z) /\ Good(z)
    <3>1. Sound(y, z)
      BY <2>2, <2>7, SaveContentSound, ResultSound
    <3> QED BY <2>7, <3>1, SoundTrans DEF Sound
  <2>9. Sound(z, u)
    BY <2>1, <2>8, CloseSound, ResultSound
  <2> QED BY <2>8, <2>9, SoundTrans
<1> QED BY <1>1, <1>2

(* Putting a node of a list: open, save and close in any case.               *)
LEMMA ListPutSound ==
  ASSUME NEW s, Good(s), s.k \in Kinds, NEW u \in ListPut(s)
  PROVE  Sound(s, u)
<1> DEFINE saved == UNION {IF t.ok THEN SaveContent(t) ELSE {t} : t \in Open(s, "w")}
<1>1. PICK z \in saved : \E w \in Close(z) : u = Returns(w, z.ok)
  BY DEF ListPut
<1>2. PICK w \in Close(z) : u = Returns(w, z.ok)
  BY <1>1
<1>3. PICK y \in Open(s, "w") : z \in IF y.ok THEN SaveContent(y) ELSE {y}
  BY <1>1
<1> HIDE DEF saved
<1>4. Sound(s, y) /\ Good(y)
  BY <1>3, OpenSound DEF Sound
<1>5. Sound(s, z) /\ Good(z)
  <2>1. Sound(y, z)
    BY <1>3, <1>4, SaveContentSound, ResultSound
  <2> QED BY <1>4, <2>1, SoundTrans DEF Sound
<1>6. Sound(s, w) /\ Good(w)
  <2>1. Sound(z, w)
    BY <1>2, <1>5, CloseSound
  <2> QED BY <1>5, <2>1, SoundTrans DEF Sound
<1>7. Sound(w, u)
  BY <1>2, <1>6, ResultSound
<1> QED BY <1>6, <1>7, SoundTrans

-------------------------------------------------------------------------------
(* What is written *)

(* Reading the status of what is no URL opens and closes nothing.            *)
LEMMA ReadStatusHolds ==
  ASSUME NEW s, Good(s), s.k # "url", NEW u \in ReadStatus(s)
  PROVE  u.r.access = s.r.access /\ u.r.handle = s.r.handle
<1> DEFINE t == ResetError(s)
<1>1. /\ DOMAIN t = DOMAIN s /\ DOMAIN t.r = DOMAIN s.r /\ t.k = s.k
      /\ t.r.access = s.r.access /\ t.r.handle = s.r.handle
  BY DEF ResetError, Good, Typed
<1> HIDE DEF t
<1>2. \/ \E ok : u = Returns(t, ok)
      \/ u = Returns([t EXCEPT !.r.read = (t.r.type = "stdin")], TRUE)
      \/ u = Stat(t)
  BY <1>1 DEF ReadStatus, t
<1>3. CASE \E ok : u = Returns(t, ok)
  BY <1>1, <1>3 DEF Returns, Good, Typed
<1>4. CASE u = Returns([t EXCEPT !.r.read = (t.r.type = "stdin")], TRUE)
  BY <1>1, <1>4 DEF Returns, Good, Typed
<1>5. CASE u = Stat(t)
  BY <1>1, <1>5 DEF Stat, Returns, Fails, Good, Typed
<1> QED BY <1>2, <1>3, <1>4, <1>5

(* A file that is opened for writing is empty, but one that is open already  *)
(* is left as it is.                                                         *)
LEMMA OpenToWrite ==
  ASSUME NEW s, Good(s), s.k = "file", NEW u \in Open(s, "w"), u.ok
  PROVE  /\ u.r.access = "file"
         /\ s.r.handle = None => u.d = Empty /\ u.r.handle = "w"
         /\ s.r.handle # None => u.d = s.d /\ u.r.handle = s.r.handle
<1> DEFINE t == ResetError(s)
<1>1. /\ DOMAIN t = DOMAIN s /\ DOMAIN t.r = DOMAIN s.r /\ t.k = "file" /\ t.d = s.d
      /\ t.r.access = s.r.access /\ t.r.handle = s.r.handle
  BY DEF ResetError, Good, Typed
<1> HIDE DEF t
<1>2. CASE IsOpen(t)
  <2>1. u = Returns(t, TRUE)
    BY <1>2 DEF Open, t
  <2>2. u.r = t.r /\ u.d = t.d
    BY <1>1, <2>1 DEF Returns, Good, Typed
  <2>3. s.r.handle # None /\ s.r.access # "undef"
    BY <1>1, <1>2 DEF IsOpen
  <2> QED BY <1>1, <2>2, <2>3 DEF Good, Held
<1>3. CASE ~IsOpen(t)
  <2>1. u \in Opened(t, "w")
    BY <1>1, <1>3 DEF Open, t
  <2>2. s.r.handle = None
    BY <1>1, <1>3 DEF IsOpen, Good, Owned
  <2>3. Fails(t, "open").ok = FALSE /\ Returns(t, FALSE).ok = FALSE
    BY <1>1 DEF Fails, Returns, Good, Typed
  <2>4. u = [[Returns(t, TRUE) EXCEPT !.n = @ + 1, !.r.access = "file", !.r.handle = "w",
                !.r.read = TRUE, !.r.exist = TRUE] EXCEPT !.d = Empty, !.w = TRUE]
    BY <2>1, <2>3 DEF Opened
  <2>5. u.d = Empty /\ u.r.access = "file" /\ u.r.handle = "w"
    BY <1>1, <2>4 DEF Returns, Good, Typed
  <2> QED BY <2>2, <2>5
<1> QED BY <1>2, <1>3

(* A save with success adds the content, whose size is known unless it has   *)
(* none.                                                                     *)
LEMMA SaveContentAdds ==
  ASSUME NEW s, Good(s), s.r.access \in {"std", "file"}, NEW u \in SaveContent(s), u.ok
  PROVE  /\ s.r.content # None
         /\ u.d = Joined(s.d, IF s.r.content.len > 0 THEN s.r.content ELSE [of |-> Garbage, len |-> u.r.size])
         /\ ~(s.r.access = "file" /\ s.r.handle = "r")
<1>1. Fails(s, "read").ok = FALSE
  BY DEF Fails, Good, Typed
<1>2. s.r.content # None
  BY <1>1 DEF SaveContent
<1>3. PICK t \in (IF s.r.size = 0 THEN ReadStatus(s) ELSE {s}) : u \in Written(t)
  BY <1>2 DEF SaveContent
<1>4. Good(t) /\ t.d = s.d /\ t.r.content = s.r.content
  BY <1>3, ReadStatusSound DEF Sound
<1>5. t.r.access = s.r.access /\ t.r.handle = s.r.handle
  <2>1. s.k # "url"
    BY DEF Good, Held
  <2> QED BY <1>3, <2>1, ReadStatusHolds
<1>6. /\ u = Appended(Returns(t, t.r.error = "none"), Data(t))
      /\ GetSize(t) # 0 /\ ~(t.r.access = "file" /\ t.r.handle = "r")
  <2>1. \A e : Fails(t, e).ok = FALSE
    BY <1>4 DEF Fails, Good, Typed
  <2>2. \A e, c : Appended(Fails(t, e), c).ok = FALSE
    BY <1>4 DEF Fails, Appended, Good, Typed
  <2> QED BY <1>3, <2>1, <2>2 DEF Written
<1>7. u.d = Joined(t.d, Data(t)) /\ u.r = t.r
  BY <1>4, <1>6 DEF Appended, Returns, Good, Typed
<1>8. Data(t) = IF t.r.content.len > 0 THEN t.r.content ELSE [of |-> Garbage, len |-> t.r.size]
  <2>1. /\ t.r.content \in Content /\ t.r.content.len \in Nat /\ t.r.sizeContent = t.r.content.len
        /\ t.r.size \in Nat
    BY <1>2, <1>4, ContentFacts DEF Good, Typed, Sized
  <2>2. CASE t.r.content.len > 0
    <3>1. GetSize(t) = t.r.content.len
      BY <2>1, <2>2 DEF GetSize
    <3>2. Data(t) = Cut(t.r.content, t.r.content.len)
      BY <2>1, <3>1 DEF Data
    <3> QED BY <2>1, <2>2, <3>2, ContentFacts
  <2>3. CASE ~(t.r.content.len > 0)
    <3>1. GetSize(t) = t.r.size /\ t.r.content.len = 0
      BY <2>1, <2>3 DEF GetSize
    <3>2. ~(GetSize(t) <= t.r.content.len)
      BY <1>6, <2>1, <3>1
    <3> QED BY <2>3, <3>1, <3>2 DEF Data
  <2> QED BY <2>2, <2>3
<1> QED BY <1>2, <1>4, <1>5, <1>6, <1>7, <1>8

(* Closing leaves the file as it is, or cuts it and fails.                   *)
LEMMA CloseCuts ==
  ASSUME NEW s, Good(s), s.d \in Content, NEW u \in Close(s)
  PROVE  /\ u.r.size = s.r.size
         /\ u.ok => u.d = s.d
         /\ \E len \in 0..s.d.len : u.d = Cut(s.d, len)
<1> DEFINE t == [s EXCEPT !.r.handle = None, !.r.access = "undef", !.n = @ - 1]
<1>1. s.d.len \in 0..s.d.len /\ s.d = Cut(s.d, s.d.len)
  BY ContentFacts
<1>2. CASE u \in {Returns(s, FALSE), Returns(t, TRUE)}
  <2>1. u.d = s.d /\ u.r.size = s.r.size
    BY <1>2 DEF Returns, Good, Typed
  <2> QED BY <1>1, <2>1
<1>3. ASSUME NEW len \in 0..s.d.len, u = [Returns(t, FALSE) EXCEPT !.d = Cut(@, len), !.w = TRUE]
      PROVE  u.ok = FALSE /\ u.d = Cut(s.d, len) /\ u.r.size = s.r.size
  BY <1>3 DEF Returns, Good, Typed
<1>4. \/ u \in {Returns(s, FALSE), Returns(t, TRUE)}
      \/ \E len \in 0..s.d.len : u = [Returns(t, FALSE) EXCEPT !.d = Cut(@, len), !.w = TRUE]
  BY DEF Close
<1> QED BY <1>2, <1>3, <1>4

-------------------------------------------------------------------------------
(* The invariant *)

(* The first state has no handle, no content and no status.                  *)
LEMMA InitIInv == Init => IInv
<1> SUFFICES ASSUME Init PROVE IInv
  OBVIOUS
<1>1. /\ DOMAIN State = {"k", "d", "n", "r", "w", "ok"}
      /\ State.k = kind /\ State.d = disk /\ State.n = 0 /\ State.r = node /\ State.w = FALSE
  BY DEF State, Init
<1>2. /\ DOMAIN node = {"type", "access", "handle", "error", "stat", "exist", "read",
                        "size", "content", "sizeContent"}
      /\ node.access = (IF kind = "std" THEN "std" ELSE "undef")
      /\ node.handle = None /\ node.content = None /\ node.stat = FALSE
      /\ node.size = 0 /\ node.sizeContent = 0
  BY DEF Init
<1>3. Typed(State) /\ Sized(node)
  BY <1>1, <1>2, ContentFacts DEF Init, Typed, Sized
<1>4. Owned(State) /\ Held(State)
  BY <1>1, <1>2, NoneAssumption DEF Owned, Held
<1>5. StatusRight
  BY <1>2 DEF StatusRight
<1>6. foreign \in BOOLEAN /\ DOMAIN memory = {"content", "sizeContent"} /\ Sized(memory)
      /\ memory.content = None /\ memory.sizeContent = 0
  BY DEF Init, Sized
<1> QED
  BY <1>1, <1>3, <1>4, <1>5, <1>6 DEF IInv, Good, Init

(* A sound outcome that becomes the state keeps the invariant: a status read *)
(* in this call is right, and one read before stays so unless others have    *)
(* changed the resource since.                                               *)
LEMMA BecomesKeeps ==
  ASSUME IInv, NEW u, Sound(State, u),
         kind' = kind, disk' = u.d, streams' = u.n, node' = u.r, written' = u.w,
         foreign' = (foreign /\ ~(u.r.stat /\ ~node.stat)),
         DOMAIN memory' = {"content", "sizeContent"}, Sized(memory'),
         memory'.content \in Content \cup {None}, memory'.sizeContent \in Nat
  PROVE  IInv'
<1>1. /\ State.k = kind /\ State.d = disk /\ State.r = node /\ State.w = written
      /\ DOMAIN State' = {"k", "d", "n", "r", "w", "ok"}
      /\ State'.k = kind' /\ State'.d = disk' /\ State'.n = streams' /\ State'.r = node' /\ State'.w = written'
  BY DEF State
<1>2. Good(u) /\ u.k = kind
  BY <1>1 DEF Sound
<1>3. Good(State')
  BY <1>1, <1>2 DEF Good, Typed, Owned, Held
<1>4. foreign' \in BOOLEAN
  BY DEF IInv
<1>5. StatusRight'
  <2> SUFFICES ASSUME kind' = "file", node'.stat, ~foreign'
               PROVE  /\ node'.exist = (disk' # None)
                      /\ disk' # None /\ ~written' => node'.size = disk'.len
    BY DEF StatusRight
  <2>1. ~node.stat \/ ~foreign
    BY DEF IInv
  <2>2. Right(State)
    BY <1>1, <2>1 DEF IInv, StatusRight, Right
  <2>3. Right(u)
    BY <2>2 DEF Sound
  <2> QED
    BY <1>2, <2>3 DEF Right
<1> QED
  BY <1>3, <1>4, <1>5 DEF IInv

(* Every action that yields sound outcomes keeps the invariant.              *)
LEMMA YieldsKeeps ==
  ASSUME IInv, NEW outcomes, \A u \in outcomes : Sound(State, u), Yields(outcomes)
  PROVE  IInv'
<1>1. PICK u \in outcomes : Becomes(u) /\ node' = u.r /\ UNCHANGED memory
  BY DEF Yields
<1>2. Sound(State, u)
  BY <1>1
<1> QED
  BY <1>1, <1>2, BecomesKeeps DEF Becomes, IInv

(* Contents that are exchanged keep their sizes.                             *)
LEMMA ExchangedKeeps ==
  ASSUME IInv, NEW s, Sound(State, s), Becomes(s), Exchanged(s)
  PROVE  IInv'
<1> DEFINE u == [s EXCEPT !.r.content = memory.content, !.r.sizeContent = memory.sizeContent]
<1>1. Good(s)
  BY DEF Sound
<1>2. /\ DOMAIN u = DOMAIN s /\ u.k = s.k /\ u.d = s.d /\ u.n = s.n /\ u.w = s.w
      /\ u.r = [s.r EXCEPT !.content = memory.content, !.sizeContent = memory.sizeContent]
  BY <1>1 DEF Good, Typed
<1> HIDE DEF u
<1>3. /\ DOMAIN u.r = DOMAIN s.r /\ u.r.access = s.r.access /\ u.r.handle = s.r.handle
      /\ u.r.content = memory.content /\ u.r.sizeContent = memory.sizeContent /\ u.r.size = s.r.size
      /\ u.r.stat = s.r.stat /\ u.r.exist = s.r.exist
  BY <1>1, <1>2 DEF Good, Typed
<1>4. Good(u)
  BY <1>1, <1>2, <1>3 DEF Good, Typed, Owned, Held, Sized, IInv
<1>5. Sound(s, u)
  BY <1>2, <1>3, <1>4 DEF Sound, Right
<1>6. Sound(State, u)
  BY <1>5, SoundTrans
<1>7. /\ memory' = [content |-> s.r.content, sizeContent |-> s.r.sizeContent]
      /\ node' = u.r
  BY <1>2 DEF Exchanged
<1>8. /\ DOMAIN memory' = {"content", "sizeContent"} /\ Sized(memory')
      /\ memory'.content \in Content \cup {None} /\ memory'.sizeContent \in Nat
  BY <1>1, <1>7 DEF Good, Typed, Sized
<1> QED
  BY <1>2, <1>3, <1>6, <1>7, <1>8, BecomesKeeps DEF Becomes

(* Every step keeps the invariant.                                           *)
LEMMA StepIInv == IInv /\ [Next]_vars => IInv'
<1> SUFFICES ASSUME IInv, [Next]_vars PROVE IInv'
  OBVIOUS
<1>1. /\ Good(State) /\ State.k \in Kinds /\ State.k = kind
      /\ State.r = node /\ State.d = disk /\ State.n = streams /\ State.w = written
  BY DEF IInv, State
<1>2. CASE Status
  BY <1>1, <1>2, ReadStatusSound, YieldsKeeps DEF Status
<1>3. CASE ResetDetails
  <2> DEFINE u == [State EXCEPT !.r.stat = FALSE]
  <2>1. /\ DOMAIN u = DOMAIN State /\ u.k = State.k /\ u.d = State.d /\ u.n = State.n /\ u.w = State.w
        /\ u.r = [State.r EXCEPT !.stat = FALSE]
    BY <1>1 DEF Good, Typed
  <2>2. Sound(State, u)
    BY <1>1, <2>1, SoundFields DEF Good, Typed, Right
  <2> QED
    BY <1>3, <2>2, YieldsKeeps DEF ResetDetails
<1>4. CASE OpenRead
  BY <1>1, <1>4, OpenSound, YieldsKeeps DEF OpenRead
<1>5. CASE Shut
  BY <1>1, <1>5, CloseSound, YieldsKeeps DEF Shut
<1>6. CASE Get
  BY <1>1, <1>6, GetContentSound, SizeAssumption, YieldsKeeps DEF Get
<1>7. CASE Doc
  BY <1>1, <1>7, ReadDocSound, YieldsKeeps DEF Doc
<1>8. CASE Put
  BY <1>1, <1>8, PutContentSound, YieldsKeeps DEF Put
<1>9. CASE PutOfList
  BY <1>1, <1>9, ListPutSound, YieldsKeeps DEF PutOfList
<1>10. CASE Eat
  <2> DEFINE u == [State EXCEPT !.r.content = None]
  <2>1. /\ DOMAIN u = DOMAIN State /\ u.k = State.k /\ u.d = State.d /\ u.n = State.n /\ u.w = State.w
        /\ u.r = [State.r EXCEPT !.content = None]
    BY <1>1 DEF Good, Typed
  <2>2. Good(u)
    BY <1>1, <2>1 DEF Good, Typed, Owned, Held, Sized
  <2>3. Right(State) => Right(u)
    BY <1>1, <2>1 DEF Good, Typed, Right
  <2> QED
    BY <1>10, <2>1, <2>2, <2>3, YieldsKeeps DEF Eat, Sound
<1>11. CASE SwapFrom
  <2>1. PICK s \in GetContent(State, MaxLoop) :
          /\ Becomes(s)
          /\ IF s.ok THEN Exchanged(s) ELSE node' = [s.r EXCEPT !.error = "copy"] /\ UNCHANGED memory
    BY <1>11 DEF SwapFrom
  <2>2. Sound(State, s) /\ Good(s)
    BY <1>1, <2>1, GetContentSound, SizeAssumption DEF Sound
  <2>3. CASE s.ok
    BY <2>1, <2>2, <2>3, ExchangedKeeps
  <2>4. CASE ~s.ok
    <3> DEFINE u == Fails(s, "copy")
    <3>1. Sound(State, u)
      BY <2>2, ResultSound, SoundTrans
    <3>2. u.d = s.d /\ u.n = s.n /\ u.r = [s.r EXCEPT !.error = "copy"] /\ u.r.stat = s.r.stat /\ u.w = s.w
      BY <2>2 DEF Fails, Good, Typed
    <3> HIDE DEF u
    <3> QED
      BY <2>1, <2>4, <3>1, <3>2, BecomesKeeps DEF Becomes, IInv
  <2> QED BY <2>3, <2>4
<1>12. CASE SwapTo
  BY <1>1, <1>12, ResultSound, ExchangedKeeps DEF SwapTo
<1>13. CASE Other
  <2>1. /\ DOMAIN State' = {"k", "d", "n", "r", "w", "ok"}
        /\ State'.k = kind /\ State'.d = disk' /\ State'.n = streams /\ State'.r = node /\ State'.w = written
    BY <1>13 DEF State, Other
  <2>2. disk' \in Content \cup {None} /\ node.handle = None
    BY <1>13, ContentAssumption DEF Other
  <2>3. Good(State')
    BY <1>1, <2>1, <2>2 DEF Good, Typed, Owned, Held
  <2>4. StatusRight'
    BY <1>13 DEF Other, StatusRight
  <2> QED
    BY <1>13, <2>3, <2>4 DEF Other, IInv
<1>14. ASSUME NEW c \in Contents, Set(c)
       PROVE  IInv'
  BY <1>1, <1>14, ContentAssumption, SetContentSound, YieldsKeeps DEF Set
<1>15. CASE UNCHANGED vars
  <2>1. State' = State
    BY <1>15 DEF vars, State
  <2> QED
    BY <1>15, <2>1 DEF vars, IInv, StatusRight
<1> QED
  BY <1>2, <1>3, <1>4, <1>5, <1>6, <1>7, <1>8, <1>9, <1>10, <1>11, <1>12, <1>13, <1>14, <1>15 DEF Next

(* What a file is that was opened and saved with success.                    *)
LEMMA OpenSaveAdds ==
  ASSUME IInv, kind = "file", NEW x, Sound(State, x), x.r.content = node.content,
         x.r.handle = node.handle, x.d = disk,
         NEW y \in Open(x, "w"), y.ok, NEW z \in SaveContent(y), z.ok,
         NEW u, u.r.size = z.r.size
  PROVE  node.content # None /\ Sound(State, z) /\ z.d \in Content /\ z.d = Saved(u)
<1>1. State.k = kind /\ State.k \in Kinds /\ Good(x) /\ x.k = "file"
  BY DEF IInv, State, Sound
<1>2. Sound(State, y) /\ Good(y) /\ y.r.content = node.content
  <2>1. Sound(x, y) /\ y.r.content = x.r.content
    BY <1>1, OpenSound DEF Sound
  <2> QED BY <2>1, SoundTrans DEF Sound
<1>3. /\ y.r.access = "file"
      /\ node.handle = None => y.d = Empty /\ y.r.handle = "w"
      /\ node.handle # None => y.d = disk /\ y.r.handle = node.handle
  BY <1>1, OpenToWrite
<1>4. /\ node.content # None
      /\ z.d = Joined(y.d, IF node.content.len > 0 THEN node.content ELSE [of |-> Garbage, len |-> u.r.size])
      /\ y.r.handle # "r"
  BY <1>2, <1>3, SaveContentAdds
<1>5. y.d = IF kind = "std" \/ node.handle = "w" THEN disk ELSE Empty
  <2>1. node.handle \in {None, "r", "w"}
    BY DEF IInv, Good, Held, State
  <2> QED BY <1>3, <1>4, <2>1, NoneAssumption
<1>6. Sound(State, z)
  BY <1>2, SaveContentSound, SoundTrans
<1>7. z.d \in Content
  <2>1. z.k = "file" /\ z.r.access = "file" => z.d \in Content
    BY <1>6 DEF Sound, Good, Held, Typed
  <2>2. Joined(y.d, IF node.content.len > 0 THEN node.content ELSE [of |-> Garbage, len |-> u.r.size]) \in Content
    <3>1. u.r.size \in Nat
      BY <1>6 DEF Sound, Good, Typed
    <3>2. node.content \in Content /\ y.d \in Content \cup {None}
      BY <1>2, <1>4 DEF Good, Typed
    <3> QED BY <3>1, <3>2, ContentFacts, JoinedContent
  <2> QED BY <1>4, <2>2
<1> QED BY <1>4, <1>5, <1>6, <1>7 DEF Saved

(* In a good state, what a save writes is the content.                       *)
LEMMA SavesOf == IInv => SavedIsContent
<1> SUFFICES ASSUME IInv PROVE SavedIsContent
  OBVIOUS
<1>1. /\ Good(State) /\ State.k = kind /\ State.k \in Kinds /\ State.d = disk /\ State.r = node
  BY DEF IInv, State
<1>2. ASSUME kind = "std", NEW u \in PutContent(State), u.ok
      PROVE  node.content # None /\ u.d = Saved(u)
  <2>1. u \in SaveContent(State) /\ node.access = "std"
    BY <1>1, <1>2 DEF PutContent, Good, Held
  <2> QED BY <1>1, <1>2, <2>1, SaveContentAdds DEF Saved
<1>3. ASSUME kind = "file", NEW u \in PutContent(State), u.ok
      PROVE  node.content # None /\ u.d = Saved(u)
  <2> DEFINE s == State
             placed == UNION {{Returns(t, TRUE), Returns(t, FALSE)} : t \in ReadStatus(s)}
             opened == UNION {IF t.ok THEN Open(t, "w") ELSE {t} : t \in placed}
             saved == UNION {IF t.ok THEN SaveContent(t) ELSE {t} : t \in opened}
  <2>1. PICK z \in saved : u \in IF z.ok THEN Close(z) ELSE {z}
    BY <1>1, <1>3 DEF PutContent
  <2>2. PICK y \in opened : z \in IF y.ok THEN SaveContent(y) ELSE {y}
    BY <2>1
  <2>3. PICK x \in placed : y \in IF x.ok THEN Open(x, "w") ELSE {x}
    BY <2>2
  <2>4. PICK w \in ReadStatus(s) : x \in {Returns(w, TRUE), Returns(w, FALSE)}
    BY <2>3
  <2> HIDE DEF placed, opened, saved
  <2>5. z.ok /\ u \in Close(z)
    BY <1>3, <2>1
  <2>6. y.ok /\ z \in SaveContent(y)
    BY <2>2, <2>5
  <2>7. x.ok /\ y \in Open(x, "w")
    BY <2>3, <2>6
  <2>8. Sound(State, w) /\ Good(w) /\ w.d = disk /\ w.r.content = node.content /\ w.r.handle = node.handle
    BY <1>1, <1>3, <2>4, ReadStatusSound, ReadStatusHolds DEF Sound
  <2>9. Sound(State, x) /\ x.d = disk /\ x.r.content = node.content /\ x.r.handle = node.handle
    <3>1. x.r = w.r /\ x.d = w.d
      BY <2>4, <2>8 DEF Returns, Good, Typed
    <3>2. Sound(w, x)
      BY <2>4, <2>8, ResultSound
    <3> QED BY <2>8, <3>1, <3>2, SoundTrans
  <2>10. /\ node.content # None /\ Sound(State, z) /\ z.d \in Content
         /\ \A v : v.r.size = z.r.size => z.d = Saved(v)
    BY <1>3, <2>5, <2>6, <2>7, <2>9, OpenSaveAdds
  <2>11. u.r.size = z.r.size /\ u.d = z.d
    BY <1>3, <2>5, <2>10, CloseCuts DEF Sound
  <2> QED BY <2>10, <2>11
<1>4. ASSUME kind = "file", NEW u \in ListPut(State), u.ok
      PROVE  node.content # None /\ \E len \in 0..Saved(u).len : u.d = Cut(Saved(u), len)
  <2> DEFINE saved == UNION {IF t.ok THEN SaveContent(t) ELSE {t} : t \in Open(State, "w")}
  <2>1. PICK z \in saved : \E w \in Close(z) : u = Returns(w, z.ok)
    BY DEF ListPut
  <2>2. PICK w \in Close(z) : u = Returns(w, z.ok)
    BY <2>1
  <2>3. PICK y \in Open(State, "w") : z \in IF y.ok THEN SaveContent(y) ELSE {y}
    BY <2>1
  <2> HIDE DEF saved
  <2>4. Sound(State, State) /\ Sound(State, y) /\ Good(y)
    BY <1>1, <2>3, OpenSound, ResultSound DEF Sound
  <2>5. Sound(State, z) /\ Good(z)
    BY <2>3, <2>4, SaveContentSound, SoundTrans DEF Sound
  <2>6. Good(w)
    BY <2>2, <2>5, CloseSound DEF Sound
  <2>7. u.ok = z.ok /\ u.r = w.r /\ u.d = w.d
    BY <2>2, <2>6 DEF Returns, Good, Typed
  <2>8. z.ok /\ y.ok /\ z \in SaveContent(y)
    BY <1>4, <2>3, <2>7
  <2>9. /\ node.content # None /\ z.d \in Content
        /\ \A v : v.r.size = z.r.size => z.d = Saved(v)
    BY <1>1, <1>4, <2>3, <2>4, <2>8, OpenSaveAdds
  <2>10. w.r.size = z.r.size /\ \E len \in 0..z.d.len : w.d = Cut(z.d, len)
    BY <2>2, <2>5, <2>9, CloseCuts
  <2> QED BY <2>7, <2>9, <2>10
<1> QED BY <1>2, <1>3, <1>4 DEF SavedIsContent

-------------------------------------------------------------------------------
(* Theorems *)

(* The invariant holds in every state.                                       *)
LEMMA Invariance == Spec => []IInv
BY InitIInv, StepIInv, PTL DEF Spec

(* Every open file or connection is the handle of the node, which knows how  *)
(* it is accessed, in whatever order it is opened, read, put and closed, and *)
(* wherever that fails.                                                      *)
THEOREM Handles == Spec => []HandlesOwned
<1>1. IInv => HandlesOwned
  BY DEF IInv, Good, Owned, State, HandlesOwned
<1> QED
  BY <1>1, Invariance, PTL

(* What a save that returns success has written is the content.              *)
THEOREM Saves == Spec => []SavedIsContent
BY SavesOf, Invariance, PTL

(* The status stays right until another process changes the resource, its    *)
(* size until the node writes.                                               *)
THEOREM StatusStaysRight == Spec => []StatusRight
<1>1. IInv => StatusRight
  BY DEF IInv
<1> QED
  BY <1>1, Invariance, PTL

(* What is got without an error is the whole resource.                       *)
THEOREM WholeOrError == Spec => ReadWholeOrError
<1> DEFINE A == (Get /\ node.content = None /\ node'.content # None /\ node'.error = "none" /\ disk # None)
                  => node'.content = disk
<1>1. IInv /\ [Next]_vars => [A]_vars
  <2> SUFFICES ASSUME IInv, Get, node.content = None, node'.content # None,
                      node'.error = "none", disk # None
               PROVE  node'.content = disk
    OBVIOUS
  <2>1. Good(State) /\ State.k \in Kinds /\ State.r = node /\ State.d = disk
    BY DEF IInv, State
  <2>2. PICK u \in GetContent(State, MaxLoop) : node' = u.r
    BY DEF Get, Yields
  <2>3. MaxLoop \in Nat
    BY SizeAssumption
  <2> QED
    BY <2>1, <2>2, <2>3, GetContentSound
<1> QED
  BY <1>1, Invariance, PTL DEF Spec, ReadWholeOrError
===============================================================================
