---------------------------- MODULE MC_VmxSetup ----------------------------
EXTENDS VmxSetup

\* The capability MSRs of a recent Intel core (the allowed-0 words of
\* IA32_VMX_PROCBASED_CTLS 0x0401e172 and of its TRUE MSR 0x04006172, and
\* so on), with every control lvisor asks for available.
Span(a, b) == a .. b
BaseCtls ==
    [pin   |-> [lo |-> {1, 2, 4}, hi |-> Span(0, 7)],
     proc  |-> [lo |-> {1, 4, 5, 6, 8, 13, 14, 15, 16, 26}, hi |-> Span(1, 31)],
     proc2 |-> [lo |-> {}, hi |-> Span(0, 20)],
     exit  |-> [lo |-> Span(0, 8) \cup {10, 11, 13, 14, 16, 17}, hi |-> Span(0, 25)],
     entry |-> [lo |-> Span(0, 8) \cup {12}, hi |-> Span(0, 17)]]
BaseTrueLo ==
    [pin |-> {1, 2, 4}, proc |-> {1, 4, 5, 6, 8, 13, 14, 26}, proc2 |-> {},
     exit |-> (Span(0, 8) \cup {10, 11, 13, 14, 16, 17}) \ {2},
     entry |-> (Span(0, 8) \cup {12}) \ {2}]
Base ==
    [vmx |-> TRUE, fc |-> {0, 2}, vmxe |-> FALSE,
     revision |-> 4, size |-> 1024, memtype |-> 6, trueCtls |-> TRUE,
     ctls |-> BaseCtls, trueLo |-> BaseTrueLo,
     ept |-> {0, 6, 8, 14, 16, 17, 20, 21}]

\* An older core without RDTSCP, INVPCID, PAT switching and MPX.
NoOptional ==
    [Base EXCEPT !.ctls.proc2.hi = @ \ {3, 12},
                 !.ctls.exit.hi = @ \ {18, 19, 23},
                 !.ctls.entry.hi = @ \ {14, 16}]

\* IA32_FEATURE_CONTROL as a BIOS may leave it: unlocked, locked with VMX
\* enabled outside SMX (with and without inside), locked with VMX only
\* inside SMX, locked with VMX off.
MC_FeatureControls == {{}, {0, 2}, {0, 1, 2}, {0, 1}, {0}}

\* Processors kvm_init must refuse: no VMX, VMXE already on, no
\* unrestricted guest, no 2 MiB EPT pages.
Refused ==
    {[Base EXCEPT !.vmx = FALSE], [Base EXCEPT !.vmxe = TRUE],
     [Base EXCEPT !.ctls.proc2.hi = @ \ {7}], [Base EXCEPT !.ept = @ \ {16}]}

MC_Cpus ==
    {[Base EXCEPT !.fc = f] : f \in MC_FeatureControls}
    \cup {[NoOptional EXCEPT !.fc = f] : f \in {{}, {0, 2}}}
    \cup Refused

\* Exit reasons: 0 (exception or NMI) and 10 (CPUID) have handlers, 2
\* (triple fault) has none.
MC_HandledReasons == {0, 10}
MC_Reasons == {0, 2, 10}
=============================================================================
