----------------------------- MODULE MCIINFlags ------------------------------
(* All five application IIN flags; one thread, or two that overlap.        *)
EXTENDS IINFlags

CONSTANTS t1, t2

MCFlags == {"NEED_TIME", "LOCAL_CONTROL", "DEVICE_TROUBLE", "CONFIG_CORRUPT",
            "EVENT_BUFFER_OVERFLOW"}
OneThread == {t1}
TwoThreads == {t1, t2}
SingleFlags == {{f} : f \in MCFlags}
AnyFlags == (SUBSET MCFlags) \ {{}}
=============================================================================
