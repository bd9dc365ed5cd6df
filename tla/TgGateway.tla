------------------------------ MODULE TgGateway ------------------------------
(***************************************************************************)
(* Telegram messages (components/tg_gw): the automation chip packs what a  *)
(* rule or a script sends and passes it over the link; the network chip    *)
(* keeps the bot's token and a default chat in flash, queues the messages, *)
(* and a worker posts them.                                                *)
(*                                                                         *)
(* A token, a chat and a parse mode are a name and a length; a text is a   *)
(* sequence of code points, each the bytes of its UTF-8 form.  The link is *)
(* as HapSession has it, in order and at most once; a frame it does not    *)
(* take is lost.  What the server answers changes nothing here.            *)
(***************************************************************************)
EXTENDS Integers, Sequences, SequencesExt, FiniteSetsExt

CONSTANTS
    Sender,     \* tasks that send: rules and scripts
    Message,    \* what they send: text, chat and mode, each "" if left out
    Token, Chat,    \* words an operator sets
    TEXT_MAX,   \* bytes of a text
    ESC_CAP,    \* size of text_esc
    Depth,      \* kTgQueueDepth
    MaxCalls    \* bound: calls

VARIABLES
    call,       \* of each sender: the call it is in, and how far; NoCall
    holder,     \* of s_send_mutex: a sender, or none
    m,          \* the static HapTgSend that calls share
    link,       \* frames on their way to the network chip
    nvs,        \* the token and the default chat
    queue,      \* s_tg_q
    worker,     \* the request being posted; Idle
    posted,     \* requests posted
    accepted,   \* messages handed to the link, with the place each has among them
    configs,    \* every pair of token and chat there was
    count       \* calls so far

vars == <<call, holder, m, link, nvs, queue, worker, posted, accepted, configs, count>>

Word(of, len) == [of |-> of, len |-> len]
NoWord  == Word("", 0)
NoCall  == [step |-> "none"]
Idle    == [step |-> "idle"]
TG_TOKEN_MAX == 80
CHAT_MAX     == 32
Blank   == [chat |-> NoWord, mode |-> NoWord, text |-> <<>>]
Bytes(text) == FlattenSeq(text)

Init ==
    /\ call = [s \in Sender |-> NoCall] /\ holder = {} /\ m = Blank
    /\ link = <<>> /\ queue = <<>> /\ worker = Idle
    /\ nvs = [token |-> NoWord, chat |-> NoWord] /\ configs = {nvs}
    /\ posted = <<>> /\ accepted = <<>> /\ count = 0

-----------------------------------------------------------------------------
\* The automation chip.

\* hap_pack_tg_*: a length before each word, and none of them too long.
hap_pack_tg_send(msg) ==
    [type |-> "send", data |-> <<msg.chat.len, msg.chat, msg.mode.len, msg.mode, Len(msg.text), msg.text>>]
hap_pack_tg_word(type, w) == [type |-> type, data |-> <<w.len, w>>]

\* hap_session_send takes the frame, or not.
send_one(frame) == link' \in {link, Append(link, frame)}

tg_gw_settoken(t) ==
    /\ count < MaxCalls /\ count' = count + 1
    /\ t.len \in 1 .. TG_TOKEN_MAX
    /\ send_one(hap_pack_tg_word("settoken", t))
    /\ UNCHANGED <<call, holder, m, nvs, queue, worker, posted, accepted, configs>>

tg_gw_setchat(c) ==
    /\ count < MaxCalls /\ count' = count + 1
    /\ c.len \in 1 .. CHAT_MAX
    /\ send_one(hap_pack_tg_word("setchat", c))
    /\ UNCHANGED <<call, holder, m, nvs, queue, worker, posted, accepted, configs>>

\* tg_gw_send: its checks, the mutex, the shared message, and the frame.
Ask(s, msg) ==
    /\ call[s] = NoCall /\ count < MaxCalls /\ count' = count + 1
    /\ Len(Bytes(msg.text)) \in 1 .. TEXT_MAX /\ msg.chat.len <= CHAT_MAX /\ msg.mode.len <= CHAT_MAX
    /\ call' = [call EXCEPT ![s] = [step |-> "wait", msg |-> msg]]
    /\ UNCHANGED <<holder, m, link, nvs, queue, worker, posted, accepted, configs>>

\* Mutant: no mutex.
TakeRegardless(s) ==
    /\ call[s].step = "wait"
    /\ holder' = {s} /\ m' = [Blank EXCEPT !.chat = call[s].msg.chat]
    /\ call' = [call EXCEPT ![s].step = "chat"]
    /\ UNCHANGED <<link, nvs, queue, worker, posted, accepted, configs, count>>

Take(s) ==
    /\ call[s].step = "wait" /\ holder = {}
    /\ holder' = {s} /\ m' = [Blank EXCEPT !.chat = call[s].msg.chat]
    /\ call' = [call EXCEPT ![s].step = "chat"]
    /\ UNCHANGED <<link, nvs, queue, worker, posted, accepted, configs, count>>

\* After 200 ms it gives up.
Contended(s) ==
    /\ call[s].step = "wait" /\ holder # {}
    /\ call' = [call EXCEPT ![s] = NoCall]
    /\ UNCHANGED <<holder, m, link, nvs, queue, worker, posted, accepted, configs, count>>

Fill(s) ==
    /\ call[s].step = "chat"
    /\ m' = [m EXCEPT !.mode = call[s].msg.mode, !.text = Bytes(call[s].msg.text)]
    /\ call' = [call EXCEPT ![s].step = "filled"]
    /\ UNCHANGED <<holder, link, nvs, queue, worker, posted, accepted, configs, count>>

SendOn(s) ==
    /\ call[s].step = "filled"
    /\ send_one(hap_pack_tg_send(m))
    /\ accepted' = IF link' = link THEN accepted ELSE Append(accepted, call[s].msg)
    /\ holder' = {} /\ call' = [call EXCEPT ![s] = NoCall]
    /\ UNCHANGED <<m, nvs, queue, worker, posted, configs, count>>

-----------------------------------------------------------------------------
\* The network chip.

\* The handler of a frame: nvs_write_str may fail, and a full queue drops the message.
tg_gw_handle(f) ==
    CASE f.type = "settoken" ->
            /\ nvs' \in {nvs} \cup {[nvs EXCEPT !.token = f.data[2]] : n \in {f.data[1]} \cap 0 .. TG_TOKEN_MAX}
            /\ UNCHANGED queue
      [] f.type = "setchat" ->
            /\ nvs' \in {nvs} \cup {[nvs EXCEPT !.chat = f.data[2]] : n \in {f.data[1]} \cap 0 .. CHAT_MAX}
            /\ UNCHANGED queue
      [] f.type = "send" ->
            /\ queue' = IF Len(queue) < Depth /\ f.data[1] <= CHAT_MAX /\ f.data[3] <= CHAT_MAX /\ f.data[5] <= TEXT_MAX
                        THEN Append(queue, [chat |-> f.data[2], mode |-> f.data[4], text |-> f.data[6]])
                        ELSE queue
            /\ UNCHANGED nvs

Handle ==
    /\ link # <<>> /\ link' = Tail(link) /\ tg_gw_handle(Head(link))
    /\ configs' = configs \cup {nvs'}
    /\ UNCHANGED <<call, holder, m, worker, posted, accepted, count>>

\* json_escape, on bytes: what fits, less a code point it was cut in.
Escape(c) ==
    CASE c \in {34, 92} -> <<92, c>>
      [] c = 10 -> <<92, 110>> [] c = 13 -> <<92, 114>> [] c = 9 -> <<92, 116>>
      [] c < 32 /\ c \notin {9, 10, 13} -> <<>>
      [] OTHER -> <<c>>
Escaped(bytes) == FlattenSeq([i \in DOMAIN bytes |-> Escape(bytes[i])])

Continues(c) == c \in 128 .. 191
Follow(lead) == CASE lead < 128 -> 0 [] lead \in 192 .. 223 -> 1 [] lead \in 224 .. 239 -> 2 [] lead \in 240 .. 247 -> 3
json_escape(bytes, cap) ==
    LET n    == Max({k \in 0 .. Len(bytes) : Len(Escaped(SubSeq(bytes, 1, k))) + 1 <= cap})
        out  == Escaped(SubSeq(bytes, 1, n))
        last == Max({0} \cup {k \in DOMAIN out : ~Continues(out[k])})
    IN  IF n < Len(bytes) /\ last > 0 /\ Len(out) - last < Follow(out[last]) THEN SubSeq(out, 1, last - 1) ELSE out

ParseModes == {"Markdown", "MarkdownV2", "HTML"}

\* tg_worker_task and tg_perform_send up to the request: the token and the default chat are read together.
Prepare ==
    /\ worker = Idle /\ queue # <<>> /\ queue' = Tail(queue)
    /\ LET msg  == Head(queue)
           chat == IF msg.chat.len # 0 THEN msg.chat ELSE nvs.chat
       IN  worker' = IF nvs.token = NoWord \/ chat = NoWord \/ msg.mode.of \notin ParseModes \cup {""}
                     THEN Idle
                     ELSE [step |-> "post", token |-> nvs.token, chat |-> chat, mode |-> msg.mode,
                           text |-> json_escape(msg.text, ESC_CAP), own |-> msg.chat.len # 0]
    /\ UNCHANGED <<call, holder, m, link, nvs, posted, accepted, configs, count>>

Post ==
    /\ worker.step = "post"
    /\ posted' = Append(posted, worker) /\ worker' = Idle
    /\ UNCHANGED <<call, holder, m, link, nvs, queue, accepted, configs, count>>

Next ==
    \/ \E s \in Sender : (\E msg \in Message : Ask(s, msg)) \/ Take(s) \/ Contended(s) \/ Fill(s) \/ SendOn(s)
    \/ \E t \in Token : tg_gw_settoken(t)
    \/ \E c \in Chat : tg_gw_setchat(c)
    \/ Handle \/ Prepare \/ Post

-----------------------------------------------------------------------------
\* The text a message may be posted with: as many whole code points as fit, escaped.
Fits(text) ==
    LET n == Max({k \in 0 .. Len(text) : Len(Escaped(Bytes(SubSeq(text, 1, k)))) + 1 <= ESC_CAP})
    IN  Escaped(Bytes(SubSeq(text, 1, n)))

Shows(post, msg) ==
    /\ post.text = Fits(msg.text) /\ post.mode = msg.mode
    /\ post.own <=> msg.chat # NoWord
    /\ post.own => post.chat = msg.chat

\* What is posted was sent, each message once at most and in order: one caller's text, cut between two code
\* points, with the chat and the mode of the same call, and a token that was stored, with the default chat, if
\* that is used, of the same moment.
PostsAreAsked ==
    /\ \E place \in [DOMAIN posted -> 0 .. Len(accepted)] :
          /\ \A i \in DOMAIN posted : place[i] > 0 /\ Shows(posted[i], accepted[place[i]])
          /\ \A i, j \in DOMAIN posted : i < j => place[i] < place[j]
    /\ \A i \in DOMAIN posted : \E c \in configs : c.token = posted[i].token /\ (posted[i].own \/ c.chat = posted[i].chat)
=============================================================================
