\* A run that is cut short between /etc/default/grub and grub2-mkconfig.
CONSTANTS
    Services <- ClusterServices
    Bridges <- ClusterBridges
    MaxFaults = 1
    MaxKills = 0
SPECIFICATION Spec
INVARIANT
    BootConfigCurrent
